---- MODULE Spec2Model ----
(***************************************************************************)
(* A model of gaedriver (src/py/src/gaedriver/gaedriver.py): the           *)
(* deployment lifecycle driven by setup_app / teardown_app, the            *)
(* update-with-rollback protocol of update_app, the backend descriptor     *)
(* (backends.yaml) and the local dev_appserver handle.                     *)
(*                                                                         *)
(* Texts.  A Python string is a sequence of tokens (TLA+ strings).  The    *)
(* substrings the code searches for ('Error', 'is already started', '@',   *)
(* ':', ...) are tokens of their own, so "x in s" is token membership,     *)
(* s.lower() lowers every token, and a regular expression is a sequence    *)
(* of literal tokens and the wildcard DotStar.  Python's None is the       *)
(* sentinel text None.                                                     *)
(***************************************************************************)
EXTENDS Integers, Sequences, FiniteSets, TLC

VARIABLES
    config,            \* the Config instance every operation is called with
    fs,                \* the files of config.app_dir: name -> content or Absent
    fs0,               \* history: the files as the session found them
    pc,                \* position of the caller thread
    op,                \* the top-level operation the caller runs (or ran last)
    n0,                \* update_app: the rollback_retries argument given
    rollback_retries,  \* update_app: local variable
    success,           \* update_app: local variable
    stdout,            \* update_app / setup_app / teardown_app: local variable
    stderr,            \* update_app: local variable
    token,             \* teardown_app: the app_token argument
    log,               \* what the running operation did so far, in order
    result,            \* how the last operation ended
    options,           \* update_app: local variable
    handles            \* the DevAppServerThread objects constructed so far

vars == <<config, fs, fs0, pc, op, n0, rollback_retries, success, stdout,
          stderr, token, log, result, options, handles>>

-----------------------------------------------------------------------------
(* Bounds of the model *)

\* the largest rollback_retries a direct caller of update_app passes
MaxRetries == 2
\* the number of DevAppServerThread objects a session constructs at most
MaxHandles == 2
\* the number of file operations a caller makes in a row
MaxOps == 3

(* Program constants *)
MAX_ROLLBACK_RETRIES == 2
SDK_STARTUP_WAIT == 5
APP_DEPLOY_WAIT == 2
DEFAULT_BACKEND_INSTANCES == 2

APP_YAML == "app.yaml"
BACKENDS_YAML == "backends.yaml"
APP_YAML_BACKUP == "app.yaml.e2e"
BACKENDS_YAML_BACKUP == "backends.yaml.e2e"
NO_ADMIN_CONSOLE_ON_SDK == <<"ADMIN_CONSOLE_NOT_AVAILABLE_FOR_SDK">>

-----------------------------------------------------------------------------
(* Texts *)

None == <<"<None>">>
NoneList == <<None>>
DotStar == ".*"
LineSep == "\n"

\* x in s
Contains(x, s) == \E i \in 1..Len(s) : s[i] = x

\* one token of s.lower()
LowerToken(t) ==
    CASE t = "Error" -> "error"
      [] t = "ERROR" -> "error"
      [] t = "Another transaction by user " -> "another transaction by user "
      [] t = " That user can undo the transaction with " ->
             " that user can undo the transaction with "
      [] t = "Everything is fine." -> "everything is fine."
      [] t = ": Backend " -> ": backend "
      [] OTHER -> t

\* s.lower()
Lower(s) == [i \in 1..Len(s) |-> LowerToken(s[i])]

\* s.startswith(x)
StartsWith(s, x) == Len(s) >= 1 /\ s[1] = x

\* s.count(x)
RECURSIVE Count(_, _)
Count(s, x) ==
    IF s = <<>> THEN 0
    ELSE (IF Head(s) = x THEN 1 ELSE 0) + Count(Tail(s), x)

\* s.find(x) >= 0 ? the index of the first x : 0
Find(s, x) ==
    IF Contains(x, s) THEN CHOOSE i \in 1..Len(s) :
                               s[i] = x /\ \A j \in 1..(i - 1) : s[j] # x
    ELSE 0

\* s.split(x): the list of the parts of s between the occurrences of x
RECURSIVE Split(_, _)
Split(s, x) ==
    IF Find(s, x) = 0 THEN <<s>>
    ELSE <<SubSeq(s, 1, Find(s, x) - 1)>> \o
         Split(SubSeq(s, Find(s, x) + 1, Len(s)), x)

\* re.match(pat, s, re.DOTALL): pat matches a prefix of s
RECURSIVE ReMatch(_, _)
ReMatch(pat, s) ==
    IF pat = <<>> THEN TRUE
    ELSE IF Head(pat) = DotStar
         THEN \E k \in 0..Len(s) : ReMatch(Tail(pat), SubSeq(s, k + 1, Len(s)))
         ELSE s # <<>> /\ Head(s) = Head(pat) /\ ReMatch(Tail(pat), Tail(s))

\* ROLLBACK_ERR_MESSAGE % user
ROLLBACK_ERR_MESSAGE(user) ==
    <<DotStar, "Another transaction by user ">> \o user \o
    <<" is already in progress for ", DotStar,
      " That user can undo the transaction with ", DotStar>>

-----------------------------------------------------------------------------
(* Config *)

\* values that are not strings: None, the int 8080, a list
NonStrings == {None, <<"<int 8080>">>, <<"<list>">>}

\* isinstance(x, basestring)
IsString(x) == x \notin NonStrings

\* type(x), as '%s' prints it
TypeName(x) ==
    CASE x = None -> "<type 'NoneType'>"
      [] x = <<"<int 8080>">> -> "<type 'int'>"
      [] x = <<"<list>">> -> "<type 'list'>"
      [] OTHER -> "<type 'str'>"

\* a classifier that looks for "localhost" anywhere in the hostname
is_cluster_appserver_Contains(cluster_hostname) ==
    ~Contains("localhost", cluster_hostname)

\* a classifier that knows "localhost" only without a port
is_cluster_appserver_Exact(cluster_hostname) ==
    cluster_hostname # <<"localhost">>

\* a classifier with its two answers swapped
is_cluster_appserver_Inverted(cluster_hostname) ==
    StartsWith(cluster_hostname, "localhost")

\* a classifier that looks for "localhost" at the end of the hostname
is_cluster_appserver_Suffix(cluster_hostname) ==
    ~(Len(cluster_hostname) >= 1 /\
      cluster_hostname[Len(cluster_hostname)] = "localhost")

is_cluster_appserver(cluster_hostname) ==
    ~StartsWith(cluster_hostname, "localhost")

\* is_cluster_appserver: the exception it raises, or ""
is_cluster_appserver_raises(cluster_hostname) ==
    IF IsString(cluster_hostname) THEN "" ELSE "TypeError"

\* Config.__init__: the exception it raises, or "": the type checks, then
\* the two-name unpacking of split('~') and of split(':')
ConfigRaises(app_id, cluster_hostname) ==
    IF ~IsString(app_id) \/ ~IsString(cluster_hostname) THEN "TypeError"
    ELSE IF Count(app_id, "~") > 1 THEN "ValueError"
    ELSE IF Count(IF Find(app_id, "~") > 0 THEN Split(app_id, "~")[2]
                  ELSE app_id, ":") > 1 THEN "ValueError"
    ELSE ""

\* Config.__init__: the message of the exception it raises
ConfigRaisesMsg(app_id, cluster_hostname) ==
    IF ~IsString(app_id)
    THEN <<"\"app_id\" must be a string, not ", TypeName(app_id)>>
    ELSE IF ~IsString(cluster_hostname)
    THEN <<"\"cluster_hostname\" must be a string, not ", TypeName(app_id)>>
    ELSE <<"too many values to unpack">>

\* Config.__init__, when it raises nothing
Config(app_id, cluster_hostname, backend_id, backend_instances, sdk_dir, app_dir, username, password, ac_hostname, appcfg_flags) ==
    LET rest == IF Find(app_id, "~") > 0 THEN Split(app_id, "~")[2]
                ELSE app_id
        display == IF Find(rest, ":") > 0 THEN Split(rest, ":")[2] ELSE rest
    IN  [app_id |-> app_id,
         backend_id |-> backend_id,
         backend_instances |-> backend_instances,
         partition |-> IF Find(app_id, "~") > 0 THEN Split(app_id, "~")[1]
                       ELSE <<>>,
         domain |-> IF Find(rest, ":") > 0 THEN Split(rest, ":")[1]
                    ELSE <<>>,
         display_app_id |-> display,
         cluster_hostname |-> cluster_hostname,
         app_hostname |->
             IF is_cluster_appserver(cluster_hostname)
             THEN IF backend_id = <<>>
                  THEN display \o <<".">> \o cluster_hostname
                  ELSE backend_id \o <<".">> \o display \o <<".">> \o
                       cluster_hostname
             ELSE cluster_hostname,
         ac_hostname |->
             IF is_cluster_appserver(cluster_hostname)
             THEN IF ac_hostname # <<>> THEN ac_hostname
                  ELSE <<"appengine.google.com">>
             ELSE NO_ADMIN_CONSOLE_ON_SDK,
         sdk_dir |-> sdk_dir,
         app_dir |-> app_dir,
         username |-> username,
         password |-> password,
         appcfg_flags |-> appcfg_flags]

\* _check_required_config_attr: the first attribute that is not set, or ""
MissingAttr(cfg, required_attributes) ==
    LET missing == {i \in 1..Len(required_attributes) :
                        cfg[required_attributes[i]] = <<>>}
    IN  IF missing = {} THEN ""
        ELSE required_attributes[CHOOSE i \in missing :
                                     \A j \in missing : i <= j]

-----------------------------------------------------------------------------
(* The deployment tool *)

\* what appcfg.py prints: the outputs the tool is modelled to give
Outputs ==
    { <<"Everything is fine.">>,
      <<"some prefix ", "Another transaction by user ", "alice",
        " is already in progress for ", "app: foo, version: 1.",
        " That user can undo the transaction with ", "appcfg rollback">>,
      <<"Error", " 409: ", "Another transaction by user ", "alice",
        " is already in progress for ", "app: foo, version: 1.",
        " That user can undo the transaction with ", "appcfg rollback">>,
      <<"Error", " 409: ", "Another transaction by user ", "bob",
        " is already in progress for ", "app: foo, version: 1.",
        " That user can undo the transaction with ", "appcfg rollback">>,
      <<"Error", " in stdout">>,
      <<"ERROR", " quota exceeded">>,
      <<"error", ": backend ", "is already started", ".">>,
      <<"error", ": Backend ", "is already stopped", ".">> }

\* a removal that removes nothing
RemoveFirst_Keeps(list, x) == list

\* list.remove(x) guarded by "x in list": the list without its first x
RemoveFirst(list, x) ==
    IF Contains(x, list)
    THEN SubSeq(list, 1, Find(list, x) - 1) \o
         SubSeq(list, Find(list, x) + 1, Len(list))
    ELSE list

\* a runner that does not require the password
AppcfgRaises_NoPassword(cfg, args) ==
    IF MissingAttr(cfg, <<"app_dir", "sdk_dir", "username">>) # ""
    THEN "ValueError"
    ELSE IF cfg.backend_id # <<>> /\ args = NoneList THEN "TypeError"
    ELSE ""

\* run_appcfg_with_auth: the exception raised before a process is spawned
AppcfgRaises(cfg, args) ==
    IF MissingAttr(cfg, <<"app_dir", "sdk_dir", "username", "password">>) # ""
    THEN "ValueError"
    ELSE IF cfg.backend_id # <<>> /\ args = NoneList THEN "TypeError"
    ELSE ""

\* run_appcfg_with_auth: the argument vector given to subprocess.Popen
AppcfgArgv(cfg, action, opts, args) ==
    LET given == IF args = NoneList THEN <<>> ELSE args
    IN  << cfg.sdk_dir \o <<"/", "appcfg.py">>,
           <<"--no_cookies">>,
           <<"--email=">> \o cfg.username,
           <<"--passin">> >>
        \o (IF cfg.app_id # <<>>
            THEN << <<"--application=">> \o cfg.app_id >> ELSE <<>>)
        \o (IF cfg.appcfg_flags # <<>>
            THEN Split(cfg.appcfg_flags, " ") ELSE <<>>)
        \o (IF cfg.ac_hostname # <<>>
            THEN << <<"--server=">> \o cfg.ac_hostname >> ELSE <<>>)
        \o (IF opts = NoneList THEN <<>> ELSE opts)
        \o (IF cfg.backend_id = <<>>
            THEN << <<action>> >> \o given
            ELSE << <<"backends">>, cfg.app_dir, <<action>> >> \o
                 RemoveFirst(given, cfg.app_dir))

-----------------------------------------------------------------------------
(* What an operation did: the entries of log *)

Event(kind) ==
    [kind |-> kind, action |-> "", options |-> <<>>, args |-> <<>>,
     argv |-> <<>>, stdin |-> <<>>, out |-> <<>>, secs |-> 0, h |-> 0]

\* a run of the tool that is given the password as an argument
AppcfgEvent_PasswordInArgv(cfg, action, opts, args, out) ==
    [Event("appcfg") EXCEPT !.action = action, !.options = opts,
                            !.args = args,
                            !.argv = AppcfgArgv(cfg, action, opts, args) \o
                                     << <<"--password=">> \o cfg.password >>,
                            !.out = out]

\* one run of the deployment tool (subprocess.Popen and communicate)
AppcfgEvent(cfg, action, opts, args, out) ==
    [Event("appcfg") EXCEPT !.action = action, !.options = opts,
                            !.args = args,
                            !.argv = AppcfgArgv(cfg, action, opts, args),
                            !.stdin = cfg.password, !.out = out]

\* time.sleep(secs)
SleepEvent(secs) == [Event("sleep") EXCEPT !.secs = secs]

\* an operation on the DevAppServerThread h
HandleEvent(kind, h) == [Event(kind) EXCEPT !.h = h]

\* how an operation ended
NoResult ==
    [kind |-> "none", exc |-> "", msg |-> <<>>, stdout |-> None,
     stderr |-> None, token |-> 0, value |-> None]
Returned(so, se) == [NoResult EXCEPT !.kind = "return", !.stdout = so,
                                     !.stderr = se]
ReturnedValue(v) == [NoResult EXCEPT !.kind = "return", !.value = v]
ReturnedToken(h) == [NoResult EXCEPT !.kind = "return", !.token = h]
\* an exception that does not carry its message
Raised_Bare(exc, msg) == [NoResult EXCEPT !.kind = "raise", !.exc = exc]

Raised(exc, msg) == [NoResult EXCEPT !.kind = "raise", !.exc = exc,
                                     !.msg = msg]
MissingAttrError(attr) ==
    Raised("ValueError", <<"\"config.", attr, "\" has to be set.">>)

-----------------------------------------------------------------------------
(* The files of config.app_dir.  A file is a sequence of lines, a line a    *)
(* text that ends with LineSep (the last line may lack it); copies keep the *)
(* content (metadata is not modelled).                                      *)

Absent == << <<"<absent>">> >>
Exists(files, name) == files[name] # Absent

\* _create_backends_yaml
CreateBackendsYaml(cfg, files) ==
    LET instances == IF cfg.backend_instances # 0 THEN cfg.backend_instances
                     ELSE DEFAULT_BACKEND_INSTANCES
        lines == << <<"backends:", LineSep>>,
                    <<"- name: ">> \o cfg.backend_id \o <<LineSep>>,
                    <<"  options: public, dynamic", LineSep>>,
                    <<"  instances: ", ToString(instances)>> >>
    IN  [files EXCEPT
            ![BACKENDS_YAML_BACKUP] =
                IF Exists(files, BACKENDS_YAML) THEN files[BACKENDS_YAML]
                ELSE @,
            ![BACKENDS_YAML] = lines]

\* a restore that, finding no backup, removes the active descriptor
RestoreBackendsYaml_Unguarded(files) ==
    IF Exists(files, BACKENDS_YAML_BACKUP)
    THEN [files EXCEPT ![BACKENDS_YAML] = files[BACKENDS_YAML_BACKUP],
                       ![BACKENDS_YAML_BACKUP] = Absent]
    ELSE [files EXCEPT ![BACKENDS_YAML] = Absent]

\* _restore_backends_yaml
RestoreBackendsYaml(files) ==
    IF Exists(files, BACKENDS_YAML_BACKUP)
    THEN [files EXCEPT ![BACKENDS_YAML] = files[BACKENDS_YAML_BACKUP],
                       ![BACKENDS_YAML_BACKUP] = Absent]
    ELSE files

\* line.strip(os.linesep)
RECURSIVE StripLineSep(_)
StripLineSep(line) ==
    IF line # <<>> /\ Head(line) = LineSep THEN StripLineSep(Tail(line))
    ELSE IF line # <<>> /\ line[Len(line)] = LineSep
         THEN StripLineSep(SubSeq(line, 1, Len(line) - 1))
         ELSE line

\* a patch that prints the other lines without stripping their line end
ReplaceAppYaml_NoStrip(cfg, files) ==
    [files EXCEPT
        ![APP_YAML_BACKUP] = files[APP_YAML],
        ![APP_YAML] =
            [i \in 1..Len(files[APP_YAML]) |->
                (IF StartsWith(files[APP_YAML][i], "application:")
                 THEN <<"application:", " ">> \o cfg.app_id
                 ELSE files[APP_YAML][i]) \o <<LineSep>>]]

\* a patch that saves the backup only after it rewrote app.yaml
ReplaceAppYaml_BackupAfter(cfg, files) ==
    [files EXCEPT
        ![APP_YAML_BACKUP] =
            [i \in 1..Len(files[APP_YAML]) |->
                (IF StartsWith(files[APP_YAML][i], "application:")
                 THEN <<"application:", " ">> \o cfg.app_id
                 ELSE StripLineSep(files[APP_YAML][i])) \o <<LineSep>>],
        ![APP_YAML] =
            [i \in 1..Len(files[APP_YAML]) |->
                (IF StartsWith(files[APP_YAML][i], "application:")
                 THEN <<"application:", " ">> \o cfg.app_id
                 ELSE StripLineSep(files[APP_YAML][i])) \o <<LineSep>>]]

\* DevAppServerThread._replace_app_yaml, for an existing app.yaml
ReplaceAppYaml(cfg, files) ==
    [files EXCEPT
        ![APP_YAML_BACKUP] = files[APP_YAML],
        ![APP_YAML] =
            [i \in 1..Len(files[APP_YAML]) |->
                (IF StartsWith(files[APP_YAML][i], "application:")
                 THEN <<"application:", " ">> \o cfg.app_id
                 ELSE StripLineSep(files[APP_YAML][i])) \o <<LineSep>>]]

\* DevAppServerThread._restore_app_yaml: the files it leaves
RestoreAppYaml(files) ==
    IF ~Exists(files, APP_YAML) THEN files
    ELSE IF ~Exists(files, APP_YAML_BACKUP)
         THEN [files EXCEPT ![APP_YAML] = Absent]
         ELSE [files EXCEPT ![APP_YAML] = files[APP_YAML_BACKUP],
                            ![APP_YAML_BACKUP] = Absent]

\* DevAppServerThread._restore_app_yaml: the exception it raises, or ""
RestoreAppYamlRaises(files) ==
    IF ~Exists(files, APP_YAML) THEN "OSError"
    ELSE IF ~Exists(files, APP_YAML_BACKUP) THEN "IOError"
    ELSE ""

-----------------------------------------------------------------------------
(* The initial state: a Config has been constructed, app_dir is untouched *)

OrigAppYaml ==
    << <<"application:", " original-app-id", LineSep>>,
       <<"version: 1", LineSep>> >>
OrigBackendsYaml ==
    << <<"backends:", LineSep>>, <<"- name: ", "other", LineSep>> >>

Configs ==
    { Config(<<"foo">>, host, backend, 0, sdk, app, user, pass, <<>>, <<>>) :
        host \in { <<"appspot.com">>, <<"localhost">>,
                   <<"localhost", ":", "8080">>,
                   <<"localhost", ":", "8080", ":", "1">> },
        backend \in { <<>>, <<"b1">> },
        sdk \in { <<>>, <<"/sdk">> },
        app \in { <<>>, <<"/app">> },
        user \in { <<>>, <<"alice", "@", "example.com">> },
        pass \in { <<>>, <<"secret">> } }

Init ==
    /\ config \in Configs
    /\ fs \in { [name \in {APP_YAML, APP_YAML_BACKUP, BACKENDS_YAML,
                           BACKENDS_YAML_BACKUP} |->
                    CASE name = APP_YAML -> OrigAppYaml
                      [] name = BACKENDS_YAML -> b
                      [] OTHER -> Absent] : b \in {Absent, OrigBackendsYaml} }
    /\ fs0 = fs
    /\ pc = "idle"
    /\ op = "none"
    /\ n0 = 0
    /\ rollback_retries = 0
    /\ success = FALSE
    /\ stdout = None
    /\ stderr = None
    /\ options = <<>>
    /\ token = 0
    /\ log = <<>>
    /\ result = NoResult
    /\ handles = <<>>

-----------------------------------------------------------------------------
(* update_app *)

\* a loop that stops one retry early
LoopCond_OffByOne(retries, succ) == retries > 1 /\ ~succ

\* a loop that still runs with the budget at zero
LoopCond_Inclusive(retries, succ) == retries >= 0 /\ ~succ

\* a loop that takes a budget of -1 for one round
LoopCond_MinusOne(retries, succ) == (retries > 0 \/ retries = -1) /\ ~succ

\* a loop that runs two rounds past the budget
LoopCond_TwoMore(retries, succ) == retries > -2 /\ ~succ

\* while rollback_retries > 0 and not success
LoopCond(retries, succ) == retries > 0 /\ ~succ

\* a conflict check that gives way to the check for 'Error'
IsConflict_UnlessError(cfg, out) ==
    /\ ReMatch(ROLLBACK_ERR_MESSAGE(Split(cfg.username, "@")[1]), out)
    /\ ~Contains("Error", out)

\* a signature that forgets the username
IsConflict_AnyUser(cfg, out) == ReMatch(ROLLBACK_ERR_MESSAGE(<<DotStar>>), out)

\* re.match(ROLLBACK_ERR_MESSAGE % short_username, stdout, re.DOTALL); the
\* tokens of the username are literals of the pattern
IsConflict(cfg, out) ==
    ReMatch(ROLLBACK_ERR_MESSAGE(Split(cfg.username, "@")[1]), out)

\* 'Error' in stdout
HasError(out) == Contains("Error", out)

\* a check for 'error' that forgets to lower the output
HasErrorAnyCase_CaseSensitive(out) == Contains("Error", out)

\* 'error' in stdout.lower()
HasErrorAnyCase(out) == Contains("error", Lower(out))

\* no pause after a successful update
Settle_Never == <<>>

\* the pause after a successful update: time.sleep(APP_DEPLOY_WAIT)
Settle == <<SleepEvent(APP_DEPLOY_WAIT)>>

\* a counter decremented before the rollback's output is looked at
RetriesAfterRollback_Early(retries, out) == retries - 1

\* rollback_retries after a rollback that printed out: a failed rollback
\* raises before the counter is decremented
RetriesAfterRollback(retries, out) ==
    IF HasError(out) THEN retries ELSE retries - 1

\* a rollback that is always given the application directory
RollbackArgs_AppDir(cfg) == <<cfg.app_dir>>

\* the arguments of the rollback
RollbackArgs(cfg) ==
    IF cfg.backend_id = <<>> THEN <<cfg.app_dir>> ELSE <<cfg.backend_id>>

\* the exception run_appcfg_with_auth raises, as the result of the operation
AppcfgRaised(cfg, args) ==
    IF AppcfgRaises(cfg, args) = "ValueError"
    THEN MissingAttrError(MissingAttr(cfg, <<"app_dir", "sdk_dir",
                                             "username", "password">>))
    ELSE Raised("TypeError",
                <<"argument of type 'NoneType' is not iterable">>)

\* raise AppcfgError('Could not rollback: %s' % stdout)
RollbackFailure(out) ==
    Raised("AppcfgError", <<"Could not rollback: ">> \o out)

\* raise AppcfgError('Could not update : %s' % stdout)
UpdateFailure(out) ==
    Raised("AppcfgError", <<"Could not update : ">> \o out)

\* a setup_app that forgets to start the backend
UpdateAppReturn_NoStart(caller, so, se) ==
    IF caller = "update_app"
    THEN pc' = "done" /\ result' = Returned(so, se)
    ELSE IF HasErrorAnyCase(so)
         THEN pc' = "done" /\ result' = Raised("AssertionError", so)
         ELSE pc' = "done" /\ result' = ReturnedToken(0)

\* update_app returns (so, se) to caller: a direct caller gets the pair;
\* setup_app asserts on it and goes on to start the backend or returns None
UpdateAppReturn(caller, so, se) ==
    IF caller = "update_app"
    THEN pc' = "done" /\ result' = Returned(so, se)
    ELSE IF HasErrorAnyCase(so)
         THEN pc' = "done" /\ result' = Raised("AssertionError", so)
         ELSE IF config.backend_id # <<>>
              THEN pc' = "su_start" /\ result' = NoResult
              ELSE pc' = "done" /\ result' = ReturnedToken(0)

\* update_app up to its first call of the tool, entered by caller with the
\* operation's log so far
UpdateAppEnter(caller, opts, retries) ==
    IF MissingAttr(config, <<"app_dir", "username">>) # ""
    THEN /\ pc' = "done"
         /\ result' = MissingAttrError(
                          MissingAttr(config, <<"app_dir", "username">>))
         /\ rollback_retries' = retries
         /\ UNCHANGED <<options, success, stdout, stderr>>
    ELSE /\ options' = IF opts = NoneList THEN <<>> ELSE opts
         /\ success' = FALSE
         /\ stdout' = None
         /\ stderr' = None
         /\ rollback_retries' = retries
         /\ IF LoopCond(retries, FALSE)
            THEN pc' = "ua_update" /\ result' = NoResult
            ELSE UpdateAppReturn(caller, None, None)

\* a caller runs update_app(config, opts, retries); a session updates an app
\* directly only while it has no local server
CallUpdateApp(opts, retries) ==
    /\ pc = "idle"
    /\ handles = <<>>
    /\ op' = "update_app"
    /\ n0' = retries
    /\ token' = 0
    /\ log' = <<>>
    /\ UpdateAppEnter("update_app", opts, retries)
    /\ UNCHANGED <<config, fs0, fs, handles>>

\* one 'update' of the loop and what follows it up to the next tool call
UaUpdate(out) ==
    /\ pc = "ua_update"
    /\ IF AppcfgRaises(config, <<config.app_dir>>) # ""
       THEN /\ pc' = "done"
            /\ result' = AppcfgRaised(config, <<config.app_dir>>)
            /\ UNCHANGED <<log, stdout, stderr, success>>
       ELSE /\ stdout' = out
            /\ stderr' = None
            /\ IF IsConflict(config, out)
               THEN /\ log' = Append(log, AppcfgEvent(config, "update",
                                         options, <<config.app_dir>>, out))
                    /\ pc' = "ua_rollback"
                    /\ UNCHANGED <<result, success>>
               ELSE IF HasError(out)
               THEN /\ log' = Append(log, AppcfgEvent(config, "update",
                                         options, <<config.app_dir>>, out))
                    /\ pc' = "done"
                    /\ result' = UpdateFailure(out)
                    /\ UNCHANGED success
               ELSE /\ log' = Append(log, AppcfgEvent(config, "update",
                                         options, <<config.app_dir>>, out))
                              \o Settle
                    /\ success' = TRUE
                    /\ UpdateAppReturn(op, out, None)
    /\ UNCHANGED <<config, fs0, fs, op, n0, rollback_retries, options, token,
                   handles>>

\* the 'rollback' after a conflict and what follows it up to the next tool call
UaRollback(out) ==
    /\ pc = "ua_rollback"
    /\ IF AppcfgRaises(config, RollbackArgs(config)) # ""
       THEN /\ pc' = "done"
            /\ result' = AppcfgRaised(config, RollbackArgs(config))
            /\ UNCHANGED <<log, stdout, stderr, rollback_retries>>
       ELSE /\ log' = Append(log, AppcfgEvent(config, "rollback", options,
                                              RollbackArgs(config), out))
            /\ stdout' = out
            /\ stderr' = None
            /\ rollback_retries' = RetriesAfterRollback(rollback_retries, out)
            /\ IF HasError(out)
               THEN /\ pc' = "done"
                    /\ result' = RollbackFailure(out)
               ELSE IF LoopCond(rollback_retries', success)
                    THEN pc' = "ua_update" /\ UNCHANGED result
                    ELSE UpdateAppReturn(op, out, None)
    /\ UNCHANGED <<config, fs0, fs, op, n0, success, options, token, handles>>

-----------------------------------------------------------------------------
(* DevAppServerThread *)

\* a validation that lets two colons pass
GetArgvRaises_OffByOne(cfg) == Count(cfg.app_hostname, ":") > 2

\* DevAppServerThread._get_argv raises ValueError
GetArgvRaises(cfg) == Count(cfg.app_hostname, ":") > 1

\* DevAppServerThread._get_argv, when app_hostname has at most one colon
DevAppserverArgv(cfg, opts, clear_datastore) ==
    << cfg.sdk_dir \o <<"/", "dev_appserver.py">>,
       <<"--skip_sdk_update_check">>,
       IF Len(Split(cfg.app_hostname, ":")) = 1 THEN <<>>
       ELSE <<"--port=">> \o Split(cfg.app_hostname, ":")[2] >>
    \o (IF clear_datastore THEN << <<"--clear_datastore">> >> ELSE <<>>)
    \o opts
    \o <<cfg.app_dir>>

\* DevAppServerThread.__init__: the object constructed
NewHandle ==
    [started |-> FALSE, pid |-> 0, run |-> "idle", exc |-> "",
     child |-> "none", options |-> <<>>, clear_datastore |-> TRUE,
     argv |-> <<>>]

\* DevAppServerThread.run up to communicate(): the thread of handle h
\* builds the arguments and spawns dev_appserver, or dies of the ValueError
ThreadRun(h) ==
    /\ h \in 1..Len(handles)
    /\ handles[h].started
    /\ handles[h].run = "idle"
    /\ handles' =
           [handles EXCEPT ![h] =
               IF GetArgvRaises(config)
               THEN [@ EXCEPT !.run = "failed", !.exc = "ValueError"]
               ELSE [@ EXCEPT !.run = "spawned", !.pid = h,
                              !.child = "running",
                              !.argv = DevAppserverArgv(
                                            config, handles[h].options,
                                            handles[h].clear_datastore)]]
    /\ UNCHANGED <<config, fs0, fs, pc, op, n0, rollback_retries, success,
                   stdout, stderr, token, log, result, options>>

\* communicate() returns once the child is dead: the child is reaped and
\* the thread of handle h ends
ThreadJoin(h) ==
    /\ h \in 1..Len(handles)
    /\ handles[h].run = "spawned"
    /\ handles[h].child = "dead"
    /\ handles' = [handles EXCEPT ![h] = [@ EXCEPT !.run = "done",
                                                   !.child = "reaped"]]
    /\ UNCHANGED <<config, fs0, fs, pc, op, n0, rollback_retries, success,
                   stdout, stderr, token, log, result, options>>

\* the dev_appserver process of handle h ends by itself (it crashed, its
\* port was taken, ...): communicate() is about to return
ChildExits(h) ==
    /\ h \in 1..Len(handles)
    /\ handles[h].child = "running"
    /\ handles' = [handles EXCEPT ![h] = [@ EXCEPT !.child = "dead"]]
    /\ UNCHANGED <<config, fs0, fs, pc, op, n0, rollback_retries, success,
                   stdout, stderr, token, log, result, options>>

\* os.kill(pid, SIGKILL) fails when the process is gone (reaped)
KillRaises(handle) == handle.pid # 0 /\ handle.child = "reaped"

\* DevAppServerThread.stop: the handle it leaves
StopHandle(handle) ==
    IF handle.pid # 0 /\ handle.child = "running"
    THEN [handle EXCEPT !.child = "dead"]
    ELSE handle

\* DevAppServerThread.stop: what it does to handle h, in order
StopLog(h, handle) ==
    <<HandleEvent("stop", h)>> \o
    (IF handle.pid # 0 THEN <<HandleEvent("kill", h)>> ELSE <<>>) \o
    (IF KillRaises(handle) THEN <<>>
     ELSE <<HandleEvent("restore_app_yaml", h)>>)

-----------------------------------------------------------------------------
(* setup_app *)

\* the local branch: DevAppServerThread(config), thread.start()
SetupLocal ==
    IF MissingAttr(config, <<"app_id", "app_dir", "sdk_dir",
                             "app_hostname">>) # ""
    THEN /\ result' = MissingAttrError(
                          MissingAttr(config, <<"app_id", "app_dir",
                                                "sdk_dir", "app_hostname">>))
         /\ log' = <<>>
         /\ UNCHANGED <<fs, handles>>
    ELSE IF ~Exists(fs, APP_YAML)
    THEN /\ result' = Raised("IOError", <<"No such file or directory">>)
         /\ log' = <<HandleEvent("thread_init", Len(handles) + 1)>>
         /\ handles' = Append(handles, NewHandle)
         /\ UNCHANGED fs
    ELSE /\ result' = ReturnedToken(Len(handles) + 1)
         /\ log' = << HandleEvent("thread_init", Len(handles) + 1),
                      HandleEvent("backup_app_yaml", Len(handles) + 1),
                      HandleEvent("patch_app_yaml", Len(handles) + 1),
                      HandleEvent("thread_start", Len(handles) + 1),
                      SleepEvent(SDK_STARTUP_WAIT) >>
         /\ fs' = ReplaceAppYaml(config, fs)
         /\ handles' = Append(handles, [NewHandle EXCEPT !.started = TRUE])

\* a caller runs setup_app(config), up to its first call of the tool
CallSetupApp ==
    /\ pc = "idle"
    /\ op' = "setup_app"
    /\ n0' = MAX_ROLLBACK_RETRIES
    /\ token' = 0
    /\ IF is_cluster_appserver(config.cluster_hostname)
       THEN /\ fs' = IF config.backend_id # <<>>
                     THEN CreateBackendsYaml(config, fs) ELSE fs
            /\ log' = IF config.backend_id # <<>>
                      THEN <<Event("create_backends_yaml")>> ELSE <<>>
            /\ UpdateAppEnter("setup_app", NoneList, MAX_ROLLBACK_RETRIES)
            /\ UNCHANGED handles
       ELSE /\ Len(handles) < MaxHandles
            /\ SetupLocal
            /\ pc' = "done"
            /\ UNCHANGED <<options, rollback_retries, success, stdout, stderr>>
    /\ UNCHANGED <<config, fs0>>

\* the arguments of 'start', 'stop' and 'delete'
BackendArgs(cfg) == <<cfg.backend_id>>

\* the assertion on the output of 'start' holds
StartAccepted(out) ==
    Contains("is already started", out) \/ ~HasErrorAnyCase(out)

\* setup_app starts the backend after the update
SetupStart(out) ==
    /\ pc = "su_start"
    /\ pc' = "done"
    /\ IF AppcfgRaises(config, BackendArgs(config)) # ""
       THEN /\ result' = AppcfgRaised(config, BackendArgs(config))
            /\ UNCHANGED <<log, stdout>>
       ELSE /\ log' = Append(log, AppcfgEvent(config, "start", NoneList,
                                              BackendArgs(config), out))
            /\ stdout' = out
            /\ result' = IF StartAccepted(out) THEN ReturnedToken(0)
                         ELSE Raised("AssertionError", out)
    /\ UNCHANGED <<config, fs0, fs, op, n0, rollback_retries, success, stderr,
                   token, options, handles>>

-----------------------------------------------------------------------------
(* teardown_app *)

\* an assertion on 'stop' that does not tolerate 'is already stopped'
StopAccepted_Strict(out) == ~HasErrorAnyCase(out)

\* the assertion on the output of 'stop' holds
StopAccepted(out) ==
    Contains("is already stopped", out) \/ ~HasErrorAnyCase(out)

\* a local branch that drops the handle without stopping it
TeardownLocal_NoStop(app_token) ==
    /\ result' = ReturnedToken(0)
    /\ log' = <<>>
    /\ UNCHANGED <<fs, handles>>

\* the local branch: app_token.stop()
TeardownLocal(app_token) ==
    IF app_token = 0
    THEN /\ result' = Raised("AttributeError",
                             <<"'NoneType' object has no attribute 'stop'">>)
         /\ log' = <<>>
         /\ UNCHANGED <<fs, handles>>
    ELSE /\ log' = StopLog(app_token, handles[app_token])
         /\ handles' = [handles EXCEPT ![app_token] = StopHandle(@)]
         /\ IF KillRaises(handles[app_token])
            THEN /\ result' = Raised("OSError", <<"No such process">>)
                 /\ UNCHANGED fs
            ELSE /\ fs' = RestoreAppYaml(fs)
                 /\ result' =
                        IF RestoreAppYamlRaises(fs) # ""
                        THEN Raised(RestoreAppYamlRaises(fs),
                                    <<"No such file or directory">>)
                        ELSE ReturnedToken(0)

\* a caller runs teardown_app(config, app_token), up to the 'stop' of the
\* backend (which prints out) and what follows it up to the next tool call
CallTeardownApp(app_token, out) ==
    /\ pc = "idle"
    /\ op' = "teardown_app"
    /\ token' = app_token
    /\ IF is_cluster_appserver(config.cluster_hostname)
       THEN /\ IF config.backend_id = <<>>
               THEN /\ pc' = "done"
                    /\ log' = <<>>
                    /\ result' = ReturnedToken(0)
                    /\ UNCHANGED stdout
               ELSE IF AppcfgRaises(config, BackendArgs(config)) # ""
               THEN /\ pc' = "done"
                    /\ log' = <<>>
                    /\ result' = AppcfgRaised(config, BackendArgs(config))
                    /\ UNCHANGED stdout
               ELSE /\ log' = <<AppcfgEvent(config, "stop", NoneList,
                                            BackendArgs(config), out)>>
                    /\ stdout' = out
                    /\ IF StopAccepted(out)
                       THEN /\ pc' = "td_delete"
                            /\ result' = NoResult
                       ELSE /\ pc' = "done"
                            /\ result' = Raised("AssertionError", out)
            /\ UNCHANGED <<fs, handles>>
       ELSE /\ pc' = "done"
            /\ TeardownLocal(app_token)
            /\ UNCHANGED stdout
    /\ UNCHANGED <<config, fs0, n0, rollback_retries, success, stderr,
                   options>>

\* teardown_app deletes the backend and restores backends.yaml
TeardownDelete(out) ==
    /\ pc = "td_delete"
    /\ pc' = "done"
    /\ stdout' = out
    /\ IF HasErrorAnyCase(out)
       THEN /\ log' = Append(log, AppcfgEvent(config, "delete", NoneList,
                                              BackendArgs(config), out))
            /\ result' = Raised("AssertionError", out)
            /\ UNCHANGED fs
       ELSE /\ log' = log \o
                      << AppcfgEvent(config, "delete", NoneList,
                                     BackendArgs(config), out),
                         Event("restore_backends_yaml") >>
            /\ result' = ReturnedToken(0)
            /\ fs' = RestoreBackendsYaml(fs)
    /\ UNCHANGED <<config, fs0, op, n0, rollback_retries, success, stderr,
                   token, options, handles>>

-----------------------------------------------------------------------------
(* The caller *)

\* the caller takes the result of the finished operation, whose frame is gone
Return ==
    /\ pc = "done"
    /\ pc' = "idle"
    /\ op' = "none"
    /\ n0' = 0
    /\ rollback_retries' = 0
    /\ success' = FALSE
    /\ stdout' = None
    /\ stderr' = None
    /\ options' = <<>>
    /\ token' = 0
    /\ log' = <<>>
    /\ result' = NoResult
    /\ UNCHANGED <<config, fs0, fs, handles>>

Next ==
    \/ \E opts \in {NoneList, << <<"--quiet">> >>}, retries \in -1..MaxRetries :
           CallUpdateApp(opts, retries)
    \/ \E out \in Outputs : UaUpdate(out)
    \/ \E out \in Outputs : UaRollback(out)
    \/ CallSetupApp
    \/ \E out \in Outputs : SetupStart(out)
    \/ \E app_token \in 0..Len(handles), out \in Outputs :
           CallTeardownApp(app_token, out)
    \/ \E out \in Outputs : TeardownDelete(out)
    \/ \E h \in 1..MaxHandles : ThreadRun(h)
    \/ \E h \in 1..MaxHandles : ChildExits(h)
    \/ \E h \in 1..MaxHandles : ThreadJoin(h)
    \/ Return

Spec == Init /\ [][Next]_vars

-----------------------------------------------------------------------------
(* update_app on its own, as UpdateAppTest calls it, with a deployment tool *)
(* that answers every invocation: run_appcfg_with_auth returns once         *)
(* communicate() has read the output of the child to its end.               *)

UpdateNext ==
    \/ \E opts \in {NoneList, << <<"--quiet">> >>}, retries \in -1..MaxRetries :
           CallUpdateApp(opts, retries)
    \/ \E out \in Outputs : UaUpdate(out)
    \/ \E out \in Outputs : UaRollback(out)
    \/ Return

UpdateSpec ==
    /\ Init
    /\ [][UpdateNext]_vars
    /\ WF_vars(\E out \in Outputs : UaUpdate(out))
    /\ WF_vars(\E out \in Outputs : UaRollback(out))

-----------------------------------------------------------------------------
(* One test session, as demo/test_e2e.py runs it: setUpModule calls         *)
(* setup_app(CONFIG) and keeps what it returns, tearDownModule calls        *)
(* teardown_app(CONFIG, APP_TOKEN); a setUpModule that raised has no        *)
(* tearDownModule.                                                          *)

\* setUpModule
SessionSetUp ==
    /\ op = "none"
    /\ CallSetupApp

\* setup_app has returned or raised: APP_TOKEN is bound, the tests run
SessionTests ==
    /\ pc = "done"
    /\ op = "setup_app"
    /\ pc' = "idle"
    /\ UNCHANGED <<config, fs, fs0, op, n0, rollback_retries, success,
                   stdout, stderr, token, log, result, options, handles>>

\* tearDownModule
SessionTearDown(out) ==
    /\ op = "setup_app"
    /\ result.kind = "return"
    /\ CallTeardownApp(result.token, out)

SessionNext ==
    \/ SessionSetUp
    \/ \E out \in Outputs : UaUpdate(out)
    \/ \E out \in Outputs : UaRollback(out)
    \/ \E out \in Outputs : SetupStart(out)
    \/ SessionTests
    \/ \E out \in Outputs : SessionTearDown(out)
    \/ \E out \in Outputs : TeardownDelete(out)
    \/ \E h \in 1..MaxHandles : ThreadRun(h)
    \/ \E h \in 1..MaxHandles : ChildExits(h)
    \/ \E h \in 1..MaxHandles : ThreadJoin(h)

SessionSpec == Init /\ [][SessionNext]_vars

-----------------------------------------------------------------------------
(* The file operations on their own: _create_backends_yaml,                 *)
(* _restore_backends_yaml, _replace_app_yaml and _restore_app_yaml called   *)
(* directly and in any order, as the unit tests call them, on the files a   *)
(* session can find: untouched ones, and ones an earlier session modified   *)
(* and did not restore.                                                     *)

\* app.yaml files: the usual one, one whose last line has no line end, one
\* with an empty line and a second key that resembles the first, one that
\* declares no application
AppYamls ==
    { OrigAppYaml,
      << <<"application:", " original-app-id", LineSep>>, <<"version: 1">> >>,
      << <<"version: 1", LineSep>>, <<LineSep>>,
         <<"application:", " original-app-id", LineSep>>,
         <<"application_readable:", " true", LineSep>> >>,
      << <<"version: 1", LineSep>>, <<"runtime: python", LineSep>> >> }

FileConfigs ==
    { Config(app_id, host, backend, instances, <<"/sdk">>, <<"/app">>,
             <<>>, <<>>, <<>>, <<>>) :
        app_id \in { <<"foo">>, <<"test-app-id">> },
        host \in { <<"appspot.com">>, <<"localhost">> },
        backend \in { <<>>, <<"b1">> },
        instances \in { 0, 3 } }

\* the files of app_dir: each pair is untouched, or was left modified (by
\* the operation of some configuration) with the original as its backup
FileStates ==
    { [name \in {APP_YAML, APP_YAML_BACKUP, BACKENDS_YAML,
                 BACKENDS_YAML_BACKUP} |->
          LET found == [n \in {APP_YAML, APP_YAML_BACKUP, BACKENDS_YAML,
                               BACKENDS_YAML_BACKUP} |->
                           CASE n = APP_YAML -> a
                             [] n = BACKENDS_YAML -> b
                             [] OTHER -> Absent]
          IN  CASE name \in {APP_YAML, APP_YAML_BACKUP} ->
                       IF a_left THEN ReplaceAppYaml(cfg, found)[name]
                       ELSE found[name]
                [] OTHER ->
                       IF b_left THEN CreateBackendsYaml(cfg, found)[name]
                       ELSE found[name]] :
        a \in AppYamls, b \in {Absent, OrigBackendsYaml},
        a_left \in BOOLEAN, b_left \in BOOLEAN,
        cfg \in {c \in FileConfigs : c.backend_id # <<>>} }

FileInit ==
    /\ config \in FileConfigs
    /\ fs \in FileStates
    /\ fs0 = fs
    /\ pc = "idle"
    /\ op = "none"
    /\ n0 = 0
    /\ rollback_retries = 0
    /\ success = FALSE
    /\ stdout = None
    /\ stderr = None
    /\ options = <<>>
    /\ token = 0
    /\ log = <<>>
    /\ result = NoResult
    /\ handles = <<>>

\* _create_backends_yaml(config), called as setup_app calls it
CallCreateBackendsYaml ==
    /\ Len(log) < MaxOps
    /\ config.backend_id # <<>>
    /\ fs' = CreateBackendsYaml(config, fs)
    /\ log' = Append(log, Event("create_backends_yaml"))
    /\ UNCHANGED <<config, fs0, pc, op, n0, rollback_retries, success,
                   stdout, stderr, token, result, options, handles>>

\* _restore_backends_yaml(config)
CallRestoreBackendsYaml ==
    /\ Len(log) < MaxOps
    /\ fs' = RestoreBackendsYaml(fs)
    /\ log' = Append(log, Event("restore_backends_yaml"))
    /\ UNCHANGED <<config, fs0, pc, op, n0, rollback_retries, success,
                   stdout, stderr, token, result, options, handles>>

\* DevAppServerThread(config)._replace_app_yaml(); without an app.yaml the
\* copy raises and nothing is written
CallReplaceAppYaml ==
    /\ Len(log) < MaxOps
    /\ fs' = IF Exists(fs, APP_YAML) THEN ReplaceAppYaml(config, fs) ELSE fs
    /\ log' = Append(log, Event(IF Exists(fs, APP_YAML)
                                THEN "replace_app_yaml"
                                ELSE "replace_app_yaml_raised"))
    /\ UNCHANGED <<config, fs0, pc, op, n0, rollback_retries, success,
                   stdout, stderr, token, result, options, handles>>

\* DevAppServerThread(config)._restore_app_yaml()
CallRestoreAppYaml ==
    /\ Len(log) < MaxOps
    /\ fs' = RestoreAppYaml(fs)
    /\ log' = Append(log, Event(IF RestoreAppYamlRaises(fs) = ""
                                THEN "restore_app_yaml"
                                ELSE "restore_app_yaml_raised"))
    /\ UNCHANGED <<config, fs0, pc, op, n0, rollback_retries, success,
                   stdout, stderr, token, result, options, handles>>

FileNext ==
    \/ CallCreateBackendsYaml
    \/ CallRestoreBackendsYaml
    \/ CallReplaceAppYaml
    \/ CallRestoreAppYaml

FileSpec == FileInit /\ [][FileNext]_vars

-----------------------------------------------------------------------------
(* The pure functions on their own: is_cluster_appserver and the            *)
(* construction of a Config, called once with arguments of any kind, as     *)
(* IsClusterAppserverTest and ConfigTest call them.                         *)

\* cluster hostnames: 'appspot.com', 'localhost', 'localhost:8080',
\* 'localhostess.example.com', 'mylocalhost', 'LOCALHOST', '', and values
\* that are not strings
Hostnames ==
    { <<"appspot.com">>, <<"localhost">>, <<"localhost", ":", "8080">>,
      <<"localhost", "ess.example.com">>, <<"my", "localhost">>,
      <<"LOCALHOST">>, <<>> } \cup NonStrings

\* application identifiers: 'foo', 's~alpha:bar', 's~bar', 'alpha:bar',
\* 'alpha:s~bar', '~', '', 'a~b~c', 's~a:b:c', 'a:b:c', and values that are
\* not strings
AppIds ==
    { <<"foo">>, <<"s", "~", "alpha", ":", "bar">>, <<"s", "~", "bar">>,
      <<"alpha", ":", "bar">>, <<"alpha", ":", "s", "~", "bar">>, <<"~">>,
      <<>>, <<"a", "~", "b", "~", "c">>,
      <<"s", "~", "a", ":", "b", ":", "c">>,
      <<"a", ":", "b", ":", "c">> } \cup NonStrings

\* no Config has been constructed
NoConfig ==
    [app_id |-> None, backend_id |-> None, backend_instances |-> 0,
     partition |-> None, domain |-> None, display_app_id |-> None,
     cluster_hostname |-> None, app_hostname |-> None, ac_hostname |-> None,
     sdk_dir |-> None, app_dir |-> None, username |-> None,
     password |-> None, appcfg_flags |-> None]

PureInit ==
    /\ config = NoConfig
    /\ fs = [name \in {APP_YAML, APP_YAML_BACKUP, BACKENDS_YAML,
                        BACKENDS_YAML_BACKUP} |-> Absent]
    /\ fs0 = fs
    /\ pc = "idle"
    /\ op = "none"
    /\ n0 = 0
    /\ rollback_retries = 0
    /\ success = FALSE
    /\ stdout = None
    /\ stderr = None
    /\ options = <<>>
    /\ token = 0
    /\ log = <<>>
    /\ result = NoResult
    /\ handles = <<>>

\* a call with these arguments
CallEvent(args) == [Event("call") EXCEPT !.args = args]

\* a caller runs is_cluster_appserver(cluster_hostname)
CallIsClusterAppserver(cluster_hostname) ==
    /\ pc = "idle"
    /\ pc' = "done"
    /\ op' = "is_cluster_appserver"
    /\ log' = <<CallEvent(<<cluster_hostname>>)>>
    /\ result' =
           IF is_cluster_appserver_raises(cluster_hostname) # ""
           THEN Raised(is_cluster_appserver_raises(cluster_hostname),
                       <<"\"cluster_hostname\" must be a string, not ",
                         TypeName(cluster_hostname)>>)
           ELSE ReturnedValue(IF is_cluster_appserver(cluster_hostname)
                              THEN <<"True">> ELSE <<"False">>)
    /\ UNCHANGED <<config, fs, fs0, n0, rollback_retries, success, stdout,
                   stderr, token, options, handles>>

\* a caller runs Config(app_id, cluster_hostname, backend_id = backend_id,
\* ac_hostname = ac_hostname)
CallConfig(app_id, cluster_hostname, backend_id, ac_hostname) ==
    /\ pc = "idle"
    /\ pc' = "done"
    /\ op' = "Config"
    /\ log' = <<CallEvent(<<app_id, cluster_hostname, backend_id,
                            ac_hostname>>)>>
    /\ IF ConfigRaises(app_id, cluster_hostname) # ""
       THEN /\ result' = Raised(ConfigRaises(app_id, cluster_hostname),
                                ConfigRaisesMsg(app_id, cluster_hostname))
            /\ UNCHANGED config
       ELSE /\ result' = ReturnedValue(<<"Config">>)
            /\ config' = Config(app_id, cluster_hostname, backend_id, 0,
                                <<>>, <<>>, <<>>, <<>>, ac_hostname, <<>>)
    /\ UNCHANGED <<fs, fs0, n0, rollback_retries, success, stdout, stderr,
                   token, options, handles>>

PureNext ==
    \/ \E cluster_hostname \in Hostnames :
           CallIsClusterAppserver(cluster_hostname)
    \/ \E app_id \in AppIds, cluster_hostname \in Hostnames,
          backend_id \in {<<>>, <<"b1">>},
          ac_hostname \in {<<>>, <<"admin.example.com">>} :
           CallConfig(app_id, cluster_hostname, backend_id, ac_hostname)

PureSpec == PureInit /\ [][PureNext]_vars

-----------------------------------------------------------------------------
(* The deployment command runner on its own: run_appcfg_with_auth called    *)
(* directly, with options and args of any shape, as RunAppcfgWithAuthTest   *)
(* calls it.                                                                *)

RunnerConfigs ==
    { Config(<<"foo">>, <<"appspot.com">>, backend, 0, sdk, <<"/app">>,
             <<"alice", "@", "example.com">>, pass, <<>>, flags) :
        backend \in { <<>>, <<"b1">> },
        sdk \in { <<>>, <<"/sdk">> },
        pass \in { <<>>, <<"secret">> },
        flags \in { <<>>, <<"--flag1", " ", "--flag2">> } }

\* args: omitted, [], [app_dir], [backend_id], [app_dir, app_dir],
\* ['x', app_dir]
RunnerArgs ==
    { NoneList, <<>>, << <<"/app">> >>, << <<"b1">> >>,
      << <<"/app">>, <<"/app">> >>, << <<"x">>, <<"/app">> >> }

\* options: omitted or ['--opt']
RunnerOptions == { NoneList, << <<"--opt">> >> }

RunnerInit ==
    /\ config \in RunnerConfigs
    /\ fs = [name \in {APP_YAML, APP_YAML_BACKUP, BACKENDS_YAML,
                        BACKENDS_YAML_BACKUP} |-> Absent]
    /\ fs0 = fs
    /\ pc = "idle"
    /\ op = "none"
    /\ n0 = 0
    /\ rollback_retries = 0
    /\ success = FALSE
    /\ stdout = None
    /\ stderr = None
    /\ options = <<>>
    /\ token = 0
    /\ log = <<>>
    /\ result = NoResult
    /\ handles = <<>>

\* the args list of the caller after the runner has spawned the tool:
\* args.remove(config.app_dir) works on the list object of the caller
ArgsAfter(cfg, args) ==
    IF cfg.backend_id # <<>> /\ args # NoneList
    THEN RemoveFirst(args, cfg.app_dir)
    ELSE args

\* a caller runs run_appcfg_with_auth(config, action, opts, args) and the
\* tool prints out; the log ends with the lists of the caller as the call
\* has left them
CallRunAppcfg(action, opts, args, out) ==
    /\ pc = "idle"
    /\ pc' = "done"
    /\ op' = "run_appcfg_with_auth"
    /\ IF AppcfgRaises(config, args) # ""
       THEN /\ log' = <<[Event("call") EXCEPT !.action = action,
                                              !.options = opts,
                                              !.args = args],
                        [Event("lists") EXCEPT !.options = opts,
                                               !.args = args]>>
            /\ result' = AppcfgRaised(config, args)
       ELSE /\ log' = <<[Event("call") EXCEPT !.action = action,
                                              !.options = opts,
                                              !.args = args],
                        AppcfgEvent(config, action, opts, args, out),
                        [Event("lists") EXCEPT
                            !.options = opts,
                            !.args = ArgsAfter(config, args)]>>
            /\ result' = Returned(out, None)
    /\ UNCHANGED <<config, fs, fs0, n0, rollback_retries, success, stdout,
                   stderr, token, options, handles>>

RunnerNext ==
    \E action \in {"update", "rollback"}, opts \in RunnerOptions,
       args \in RunnerArgs,
       out \in {<<"Everything is fine.">>,
                <<"Error", " in stdout">>} :
        CallRunAppcfg(action, opts, args, out)

RunnerSpec == RunnerInit /\ [][RunnerNext]_vars

-----------------------------------------------------------------------------
(* The local server handle on its own: a caller constructs                  *)
(* DevAppServerThread objects and calls start() and stop() on them in any   *)
(* order, while the background threads and the child processes run, as the  *)
(* docstring of the class and DevAppServerThreadTest use it.                *)

ThreadConfigs ==
    { Config(<<"foo">>, host, <<>>, 0, sdk, <<"/app">>,
             <<"alice", "@", "example.com">>, <<"secret">>, <<>>, <<>>) :
        host \in { <<"localhost">>, <<"localhost", ":", "8080">>,
                   <<"localhost", ":", "8080", ":", "1">> },
        sdk \in { <<>>, <<"/sdk">> } }

ThreadInitState ==
    /\ config \in ThreadConfigs
    /\ fs = [name \in {APP_YAML, APP_YAML_BACKUP, BACKENDS_YAML,
                        BACKENDS_YAML_BACKUP} |->
                 IF name = APP_YAML THEN OrigAppYaml ELSE Absent]
    /\ fs0 = fs
    /\ pc = "idle"
    /\ op = "none"
    /\ n0 = 0
    /\ rollback_retries = 0
    /\ success = FALSE
    /\ stdout = None
    /\ stderr = None
    /\ options = <<>>
    /\ token = 0
    /\ log = <<>>
    /\ result = NoResult
    /\ handles = <<>>

\* a caller runs DevAppServerThread(config, opts, clear_datastore)
CallThreadInit(opts, clear_datastore) ==
    /\ pc = "idle"
    /\ Len(handles) < MaxHandles
    /\ pc' = "done"
    /\ op' = "DevAppServerThread"
    /\ IF MissingAttr(config, <<"app_id", "app_dir", "sdk_dir",
                                "app_hostname">>) # ""
       THEN /\ result' = MissingAttrError(
                             MissingAttr(config, <<"app_id", "app_dir",
                                                   "sdk_dir",
                                                   "app_hostname">>))
            /\ log' = <<>>
            /\ UNCHANGED <<handles, token>>
       ELSE /\ result' = ReturnedToken(Len(handles) + 1)
            /\ token' = Len(handles) + 1
            /\ log' = <<HandleEvent("thread_init", Len(handles) + 1)>>
            /\ handles' =
                   Append(handles,
                          [NewHandle EXCEPT
                              !.options = IF opts = NoneList THEN <<>>
                                          ELSE opts,
                              !.clear_datastore = clear_datastore])
    /\ UNCHANGED <<config, fs, fs0, n0, rollback_retries, success, stdout,
                   stderr, options>>

\* a caller runs start() on handle h: _replace_app_yaml, Thread.start
\* (which refuses a thread that was started before), time.sleep
CallStart(h) ==
    /\ pc = "idle"
    /\ h \in 1..Len(handles)
    /\ pc' = "done"
    /\ op' = "start"
    /\ token' = h
    /\ IF ~Exists(fs, APP_YAML)
       THEN /\ result' = Raised("IOError", <<"No such file or directory">>)
            /\ log' = <<HandleEvent("start", h)>>
            /\ UNCHANGED <<fs, handles>>
       ELSE IF handles[h].started
       THEN /\ result' = Raised("RuntimeError",
                                <<"thread already started">>)
            /\ log' = << HandleEvent("start", h),
                         HandleEvent("backup_app_yaml", h),
                         HandleEvent("patch_app_yaml", h) >>
            /\ fs' = ReplaceAppYaml(config, fs)
            /\ UNCHANGED handles
       ELSE /\ result' = ReturnedToken(0)
            /\ log' = << HandleEvent("start", h),
                         HandleEvent("backup_app_yaml", h),
                         HandleEvent("patch_app_yaml", h),
                         HandleEvent("thread_start", h),
                         SleepEvent(SDK_STARTUP_WAIT) >>
            /\ fs' = ReplaceAppYaml(config, fs)
            /\ handles' = [handles EXCEPT ![h] = [@ EXCEPT !.started = TRUE]]
    /\ UNCHANGED <<config, fs0, n0, rollback_retries, success, stdout,
                   stderr, options>>

\* a caller runs stop() on handle h
CallStop(h) ==
    /\ pc = "idle"
    /\ h \in 1..Len(handles)
    /\ pc' = "done"
    /\ op' = "stop"
    /\ token' = h
    /\ log' = StopLog(h, handles[h])
    /\ handles' = [handles EXCEPT ![h] = StopHandle(@)]
    /\ IF KillRaises(handles[h])
       THEN /\ result' = Raised("OSError", <<"No such process">>)
            /\ UNCHANGED fs
       ELSE /\ fs' = RestoreAppYaml(fs)
            /\ result' = IF RestoreAppYamlRaises(fs) # ""
                         THEN Raised(RestoreAppYamlRaises(fs),
                                     <<"No such file or directory">>)
                         ELSE ReturnedToken(0)
    /\ UNCHANGED <<config, fs0, n0, rollback_retries, success, stdout,
                   stderr, options>>

ThreadNext ==
    \/ \E opts \in {NoneList, << <<"--foo">>, <<"--bar">> >>},
          clear_datastore \in BOOLEAN :
           CallThreadInit(opts, clear_datastore)
    \/ \E h \in 1..MaxHandles : CallStart(h)
    \/ \E h \in 1..MaxHandles : CallStop(h)
    \/ \E h \in 1..MaxHandles : ThreadRun(h)
    \/ \E h \in 1..MaxHandles : ChildExits(h)
    \/ \E h \in 1..MaxHandles : ThreadJoin(h)
    \/ Return

ThreadSpec == ThreadInitState /\ [][ThreadNext]_vars

-----------------------------------------------------------------------------
(* Reading the log of the running operation *)

\* the positions of log where the tool ran action
Runs(action) ==
    {i \in 1..Len(log) : log[i].kind = "appcfg" /\ log[i].action = action}

\* the positions of log where the caller slept
Sleeps == {i \in 1..Len(log) : log[i].kind = "sleep"}

\* out matches the conflict signature for the configured short username
MatchesSignature(out) ==
    ReMatch(ROLLBACK_ERR_MESSAGE(Split(config.username, "@")[1]), out)

\* the configuration carries what update_app and the tool's runner require
ToolConfigured ==
    /\ config.app_dir # <<>>
    /\ config.sdk_dir # <<>>
    /\ config.username # <<>>
    /\ config.password # <<>>

\* the cluster hostname starts with "localhost"
LocalTarget == StartsWith(config.cluster_hostname, "localhost")

-----------------------------------------------------------------------------
(* Claims about update_app *)

\* C1: when update_app(config, rollback_retries = n) with n > 0 and a
\* configuration that carries the required fields has ended, and every
\* 'update' printed the conflict signature of the configured short username
\* and every 'rollback' printed no 'Error', then 'update' ran exactly n times,
\* 'rollback' ran exactly n times and update_app returned without raising.
C1_ConflictEveryTime ==
    ( /\ op = "update_app" /\ pc = "done" /\ n0 > 0 /\ ToolConfigured
      /\ \A i \in Runs("update") : MatchesSignature(log[i].out)
      /\ \A i \in Runs("rollback") : ~Contains("Error", log[i].out) )
    => /\ result.kind = "return"
       /\ Cardinality(Runs("update")) = n0
       /\ Cardinality(Runs("rollback")) = n0

\* C1 happens: two conflicts, two clean rollbacks, a normal return.
C1_Witness ==
    /\ op = "update_app" /\ pc = "done" /\ n0 = 2 /\ ToolConfigured
    /\ \A i \in Runs("update") : MatchesSignature(log[i].out)
    /\ \A i \in Runs("rollback") : ~Contains("Error", log[i].out)
    /\ Cardinality(Runs("update")) = 2
    /\ Cardinality(Runs("rollback")) = 2
    /\ result.kind = "return"

\* C2: when the first 'update' of update_app prints output that contains
\* 'Error' and does not match the conflict signature, update_app has raised
\* the update failure carrying that output and the tool ran exactly once:
\* no rollback, no second update, no pause.
C2_UpdateFailure ==
    ( /\ op = "update_app" /\ Len(log) >= 1
      /\ log[1].kind = "appcfg" /\ log[1].action = "update"
      /\ Contains("Error", log[1].out) /\ ~MatchesSignature(log[1].out) )
    => /\ pc = "done"
       /\ result = Raised("AppcfgError",
                          <<"Could not update : ">> \o log[1].out)
       /\ Len(log) = 1
       /\ Runs("rollback") = {}
       /\ Sleeps = {}
       /\ ~success

\* C2 happens: the conflict of another user, which contains 'Error'.
C2_Witness ==
    /\ op = "update_app" /\ pc = "done" /\ Len(log) = 1
    /\ log[1].action = "update"
    /\ Contains("Error", log[1].out) /\ ~MatchesSignature(log[1].out)
    /\ Contains("Another transaction by user ", log[1].out)
    /\ result.exc = "AppcfgError"

\* C3: a 'rollback' that prints 'Error' ends update_app at once with the
\* rollback failure carrying that output: it follows an 'update' that matched
\* the conflict signature, it is the last thing update_app did, and the retry
\* counter was not decremented for it; on the first conflict exactly one
\* update and one rollback ran and the counter still has its initial value.
C3_RollbackFailure ==
    op = "update_app" =>
        \A i \in Runs("rollback") :
            Contains("Error", log[i].out) =>
                /\ pc = "done"
                /\ i = Len(log)
                /\ result = Raised("AppcfgError",
                                   <<"Could not rollback: ">> \o log[i].out)
                /\ i - 1 \in Runs("update")
                /\ MatchesSignature(log[i - 1].out)
                /\ rollback_retries = n0 - (Cardinality(Runs("rollback")) - 1)
                /\ Sleeps = {}
                /\ Cardinality(Runs("rollback")) = 1 =>
                       /\ Len(log) = 2
                       /\ Cardinality(Runs("update")) = 1
                       /\ rollback_retries = n0

\* C3 happens: the first conflict's rollback fails.
C3_Witness ==
    /\ op = "update_app" /\ pc = "done" /\ Len(log) = 2
    /\ log[1].action = "update" /\ MatchesSignature(log[1].out)
    /\ log[2].action = "rollback" /\ Contains("Error", log[2].out)
    /\ result.exc = "AppcfgError"
    /\ rollback_retries = n0 /\ n0 = 2

\* the 'update' at position i of log succeeded: its output neither matches
\* the conflict signature nor contains 'Error'
UpdateSucceededAt(i) ==
    /\ i \in Runs("update")
    /\ ~MatchesSignature(log[i].out)
    /\ ~Contains("Error", log[i].out)

\* C4: an 'update' of update_app whose output neither matches the conflict
\* signature nor contains 'Error' is followed by one pause of the settling
\* interval and nothing else: success is marked, update_app has returned
\* (stdout, stderr) of that update; and update_app pauses nowhere else.
C4_SettleOnSuccess ==
    op = "update_app" =>
        /\ \A i \in 1..Len(log) :
               UpdateSucceededAt(i) =>
                   /\ Len(log) = i + 1
                   /\ log[i + 1] = SleepEvent(APP_DEPLOY_WAIT)
                   /\ success
                   /\ pc = "done"
                   /\ result = Returned(log[i].out, None)
        /\ \A j \in Sleeps : j > 1 /\ UpdateSucceededAt(j - 1)
        /\ Cardinality(Sleeps) <= 1
        /\ success => Sleeps # {}

\* C4 happens: a successful update after a conflict was rolled back.
C4_Witness ==
    /\ op = "update_app" /\ pc = "done" /\ Len(log) = 4
    /\ UpdateSucceededAt(3)
    /\ log[4].kind = "sleep"
    /\ result.kind = "return"

\* C5: when update_app was given a positive retry budget and the budget has
\* reached zero without a successful update, update_app has returned, without
\* raising, the (stdout, stderr) it captured last: those of the last rollback.
C5_SilentExhaustion ==
    ( /\ op = "update_app" /\ pc = "done"
      /\ n0 > 0 /\ rollback_retries = 0 /\ ~success )
    => /\ result.kind = "return"
       /\ Len(log) >= 1
       /\ Len(log) \in Runs("rollback")
       /\ result = Returned(log[Len(log)].out, None)
       /\ \A i \in 1..Len(log) : ~UpdateSucceededAt(i)

\* C5 happens: the budget of 2 is used up by two conflicts.
C5_Witness ==
    /\ op = "update_app" /\ pc = "done"
    /\ n0 = 2 /\ rollback_retries = 0 /\ ~success
    /\ result.kind = "return"
    /\ Len(log) = 4

-----------------------------------------------------------------------------
(* Claims about setup_app and teardown_app *)

\* the kinds of log entries that construct or start a local server
LocalServerKinds ==
    {"thread_init", "backup_app_yaml", "patch_app_yaml", "thread_start"}

\* C6: whenever setup_app returns, it returns None exactly for a remote
\* cluster hostname and the handle it constructed, started, exactly for a
\* local one; a remote setup constructs and starts no local server and a
\* local setup never runs the deployment tool.
C6_SetupBranch ==
    op = "setup_app" =>
        /\ (pc = "done" /\ result.kind = "return") =>
               /\ result.token = 0 <=> ~LocalTarget
               /\ LocalTarget =>
                      /\ result.token = Len(handles)
                      /\ result.token >= 1
                      /\ handles[result.token].started
                      /\ \E i \in 1..Len(log) :
                             log[i] = HandleEvent("thread_start", result.token)
        /\ ~LocalTarget =>
               /\ handles = <<>>
               /\ \A i \in 1..Len(log) : log[i].kind \notin LocalServerKinds
        /\ LocalTarget => \A i \in 1..Len(log) : log[i].kind # "appcfg"

\* C6 happens: a local setup returned a started handle.
C6_Witness ==
    /\ op = "setup_app" /\ pc = "done" /\ LocalTarget
    /\ Contains(":", config.cluster_hostname)
    /\ result.kind = "return" /\ result.token = 1
    /\ handles[1].started

\* C7: a remote setup_app with a backend identifier first creates the
\* backend descriptor, then runs the update protocol, and only then runs
\* 'start', once, last, with the backend identifier as its argument; when it
\* returns, 'start' has run exactly once.  Without a backend identifier it
\* creates no descriptor and runs no 'start'.
C7_SetupOrder ==
    (op = "setup_app" /\ ~LocalTarget) =>
        /\ config.backend_id # <<>> =>
               /\ Len(log) >= 1
               /\ log[1].kind = "create_backends_yaml"
               /\ \A i \in 2..Len(log) : log[i].kind # "create_backends_yaml"
               /\ \A i \in Runs("start") :
                      /\ i = Len(log)
                      /\ log[i].args = <<config.backend_id>>
                      /\ SubSeq(log[i].argv, Len(log[i].argv) - 1,
                                Len(log[i].argv)) =
                             << <<"start">>, config.backend_id >>
                      /\ \E j \in Runs("update") : j < i
                      /\ log[i - 1].kind \in {"sleep", "appcfg"}
                      /\ log[i - 1].kind = "appcfg" =>
                             log[i - 1].action = "rollback"
               /\ Cardinality(Runs("start")) <= 1
               /\ (pc = "done" /\ result.kind = "return") =>
                      Cardinality(Runs("start")) = 1
        /\ config.backend_id = <<>> =>
               /\ \A i \in 1..Len(log) : log[i].kind # "create_backends_yaml"
               /\ Runs("start") = {}

\* C7 happens: descriptor, a rolled back conflict, an update, the start.
C7_Witness ==
    /\ op = "setup_app" /\ pc = "done" /\ ~LocalTarget
    /\ config.backend_id # <<>>
    /\ result.kind = "return"
    /\ Len(log) = 6
    /\ log[1].kind = "create_backends_yaml"
    /\ log[2].action = "update" /\ log[3].action = "rollback"
    /\ log[4].action = "update" /\ log[5].kind = "sleep"
    /\ log[6].action = "start"

\* the update protocol run by setup_app has returned
ProtocolReturned == success \/ rollback_retries = 0

\* the output the update protocol captured last
ProtocolOut ==
    LET runs == Runs("update") \cup Runs("rollback")
    IN  log[CHOOSE i \in runs : \A j \in runs : j <= i].out

\* C8: a remote setup_app ends with an assertion failure carrying the output
\* whenever the output the update protocol returned contains 'error' in any
\* letter case, and then 'start' is not run; the output of 'start' is
\* accepted when it contains 'is already started' (also when it contains
\* 'error'), and any other output of 'start' that contains 'error' in any
\* letter case ends setup_app with an assertion failure.
C8_SetupAsserts ==
    (op = "setup_app" /\ ~LocalTarget) =>
        /\ ( /\ ProtocolReturned
             /\ Runs("update") # {}
             /\ Contains("error", Lower(ProtocolOut)) ) =>
               /\ pc = "done"
               /\ result = Raised("AssertionError", ProtocolOut)
               /\ Runs("start") = {}
        /\ \A i \in Runs("start") :
               /\ pc = "done"
               /\ result =
                      IF Contains("is already started", log[i].out)
                      THEN ReturnedToken(0)
                      ELSE IF Contains("error", Lower(log[i].out))
                           THEN Raised("AssertionError", log[i].out)
                           ELSE ReturnedToken(0)

\* C8 happens: the update printed 'ERROR', which update_app lets pass.
C8_Witness ==
    /\ op = "setup_app" /\ pc = "done" /\ ~LocalTarget
    /\ success
    /\ Contains("ERROR", ProtocolOut)
    /\ result.exc = "AssertionError"
    /\ Runs("start") = {}

\* C9: a remote teardown_app with a backend identifier (and a configuration
\* the tool's runner accepts) runs 'stop' first and 'delete' second, each
\* with the backend identifier as its argument, and restores the backend
\* descriptor third.  'delete' follows every 'stop' whose output contains
\* 'is already stopped' (also when it contains 'error') or contains no
\* 'error'; a 'delete' whose output contains 'error' in any letter case ends
\* teardown_app with an assertion failure.
C9_TeardownOrder ==
    ( /\ op = "teardown_app" /\ ~LocalTarget
      /\ config.backend_id # <<>> /\ ToolConfigured ) =>
        /\ Len(log) \in 1..3
        /\ log[1].kind = "appcfg" /\ log[1].action = "stop"
        /\ log[1].args = <<config.backend_id>>
        /\ IF \/ Contains("is already stopped", log[1].out)
              \/ ~Contains("error", Lower(log[1].out))
           THEN \/ Len(log) = 1 /\ pc = "td_delete"
                \/ Len(log) >= 2
           ELSE /\ Len(log) = 1 /\ pc = "done"
                /\ result = Raised("AssertionError", log[1].out)
        /\ Len(log) >= 2 =>
               /\ pc = "done"
               /\ log[2].kind = "appcfg" /\ log[2].action = "delete"
               /\ log[2].args = <<config.backend_id>>
               /\ IF Contains("error", Lower(log[2].out))
                  THEN /\ Len(log) = 2
                       /\ result = Raised("AssertionError", log[2].out)
                  ELSE /\ Len(log) = 3
                       /\ log[3].kind = "restore_backends_yaml"
                       /\ ~Exists(fs, BACKENDS_YAML_BACKUP)
                       /\ result = ReturnedToken(0)

\* C9 happens: 'stop' says 'error: Backend is already stopped.', 'delete'
\* runs all the same and the descriptor is restored.
C9_Witness ==
    /\ op = "teardown_app" /\ pc = "done" /\ ~LocalTarget
    /\ config.backend_id # <<>>
    /\ Len(log) = 3
    /\ log[1].action = "stop"
    /\ Contains("is already stopped", log[1].out)
    /\ Contains("error", Lower(log[1].out))
    /\ log[2].action = "delete"
    /\ log[3].kind = "restore_backends_yaml"
    /\ result.kind = "return"

\* C10: teardown_app on a remote target without a backend identifier is one
\* step that returns None and does nothing else: it runs no deployment
\* command, leaves every file as it is and does not touch the handle it was
\* given (None is as good as any).
C10_TeardownFrontendNoop ==
    [][ ( /\ pc = "idle" /\ op' = "teardown_app"
          /\ ~LocalTarget /\ config.backend_id = <<>> ) =>
            /\ pc' = "done"
            /\ log' = <<>>
            /\ result' = ReturnedToken(0)
            /\ fs' = fs
            /\ handles' = handles ]_vars

\* C10 happens: a frontend was set up and torn down again.
C10_Witness ==
    /\ op = "teardown_app" /\ pc = "done"
    /\ ~LocalTarget /\ config.backend_id = <<>>
    /\ token = 0
    /\ result.kind = "return"

-----------------------------------------------------------------------------
(* Claims about the local server and the descriptor files *)

\* the positions of log with an entry of kind for the handle h
HandleRuns(kind, h) ==
    {i \in 1..Len(log) : log[i] = HandleEvent(kind, h)}

\* C11: teardown_app on a local target calls stop() on the handle it was
\* given exactly once, and on no other handle; that stop() kills the recorded
\* process if and only if a process id was recorded, and performs the
\* restoration of the application descriptor whether or not one was recorded.
C11_StopKillsAndRestores ==
    [][ ( /\ pc = "idle" /\ op' = "teardown_app"
          /\ LocalTarget /\ token' >= 1 ) =>
            /\ Cardinality({i \in 1..Len(log') : log'[i].kind = "stop"}) = 1
            /\ \A i \in 1..Len(log') : log'[i].h = token'
            /\ (\E i \in 1..Len(log') : log'[i].kind = "kill")
                   <=> handles[token'].pid # 0
            /\ \E i \in 1..Len(log') : log'[i].kind = "restore_app_yaml" ]_vars

\* C12: when setup_app on a local target returns, start() has done exactly
\* this, in this order, to the handle it returns: copied app.yaml to the
\* backup path, patched app.yaml, started the background thread and slept
\* for the warm-up interval; the backup holds what app.yaml held before the
\* patch, so it was written before app.yaml was modified.
C12_StartOrder ==
    [][ ( /\ pc = "idle" /\ op' = "setup_app"
          /\ LocalTarget /\ result'.kind = "return" ) =>
            /\ result'.token = Len(handles) + 1
            /\ log' = << HandleEvent("thread_init", result'.token),
                         HandleEvent("backup_app_yaml", result'.token),
                         HandleEvent("patch_app_yaml", result'.token),
                         HandleEvent("thread_start", result'.token),
                         SleepEvent(SDK_STARTUP_WAIT) >>
            /\ fs'[APP_YAML_BACKUP] = fs[APP_YAML]
            /\ fs'[APP_YAML_BACKUP] # Absent
            /\ handles'[result'.token].started ]_vars

\* C12 happens: a local server was started on an untouched app.yaml: the
\* backup holds the original and app.yaml declares the configured id.
C12_Witness ==
    /\ op = "setup_app" /\ pc = "done" /\ LocalTarget
    /\ result.kind = "return" /\ Len(log) = 5
    /\ log[5].kind = "sleep"
    /\ fs[APP_YAML_BACKUP] = OrigAppYaml
    /\ fs[APP_YAML] # OrigAppYaml
    /\ fs[APP_YAML][1] = <<"application:", " ">> \o config.app_id \o <<LineSep>>

\* the operations applied so far are exactly these, in this order
Applied(kinds) ==
    /\ Len(log) = Len(kinds)
    /\ \A i \in 1..Len(kinds) : log[i].kind = kinds[i]

\* C13: after _create_backends_yaml and then _restore_backends_yaml,
\* backends.yaml is what it was before the creation (absent when there was
\* none) and there is no backup file.
C13_BackendsRoundTrip ==
    Applied(<<"create_backends_yaml", "restore_backends_yaml">>) =>
        /\ fs[BACKENDS_YAML] = fs0[BACKENDS_YAML]
        /\ ~Exists(fs, BACKENDS_YAML_BACKUP)

\* C14: _restore_backends_yaml changes no file when there is no backup
\* file, whether _create_backends_yaml was never called or a restore already
\* ran; it never leaves a backup file; so a restore that follows a restore
\* changes nothing: twice has the effect of once.
C14_RestoreIdempotent ==
    [][ log' = Append(log, Event("restore_backends_yaml")) =>
            /\ ~Exists(fs, BACKENDS_YAML_BACKUP) => fs' = fs
            /\ ~Exists(fs', BACKENDS_YAML_BACKUP)
            /\ ( /\ Len(log) >= 1
                 /\ log[Len(log)].kind = "restore_backends_yaml" ) =>
                   fs' = fs ]_vars

\* C14 happens: a descriptor was created and restored, and restored again:
\* the second restore found no backup and the existing backends.yaml, which
\* it left as it was.
C14_Witness ==
    /\ Applied(<<"create_backends_yaml", "restore_backends_yaml",
                 "restore_backends_yaml">>)
    /\ ~Exists(fs, BACKENDS_YAML_BACKUP)
    /\ Exists(fs, BACKENDS_YAML)
    /\ fs = fs0

-----------------------------------------------------------------------------
(* Claims about one session of setup_app and teardown_app *)

\* the session's teardown_app has returned normally
CleanTeardown == op = "teardown_app" /\ pc = "done" /\ result.kind = "return"

\* C15: at every moment of a session, app.yaml has a backup file if and
\* only if the session has modified app.yaml, and backends.yaml has a backup
\* file if and only if the session has modified backends.yaml; and once
\* teardown_app has returned after a setup_app that returned, there is no
\* backup file and no file that did not exist before setup_app.
C15_BackupIffModified ==
    /\ Exists(fs, APP_YAML_BACKUP) <=> fs[APP_YAML] # fs0[APP_YAML]
    /\ Exists(fs, BACKENDS_YAML_BACKUP) <=>
           fs[BACKENDS_YAML] # fs0[BACKENDS_YAML]
    /\ CleanTeardown =>
           /\ ~Exists(fs, APP_YAML_BACKUP)
           /\ ~Exists(fs, BACKENDS_YAML_BACKUP)
           /\ \A name \in DOMAIN fs : Exists(fs, name) => Exists(fs0, name)

-----------------------------------------------------------------------------
(* Claims about the application descriptor *)

\* the text of a line without the line end that terminates it
LineText(line) ==
    IF line # <<>> /\ line[Len(line)] = LineSep
    THEN SubSeq(line, 1, Len(line) - 1)
    ELSE line

\* C16: _replace_app_yaml keeps the number of lines of app.yaml; a line
\* that starts with 'application:' becomes 'application: <config.app_id>',
\* every other line keeps its text and its position (each line ends with one
\* line end); the backup holds the content of before.  _restore_app_yaml
\* right after it leaves app.yaml with exactly the content of before the
\* patch and no backup file.  Neither touches backends.yaml.
C16_PatchRoundTrip ==
    /\ Applied(<<"replace_app_yaml">>) =>
           /\ Len(fs[APP_YAML]) = Len(fs0[APP_YAML])
           /\ \A i \in 1..Len(fs0[APP_YAML]) :
                  fs[APP_YAML][i] =
                      IF Head(fs0[APP_YAML][i]) = "application:"
                      THEN <<"application:", " ">> \o config.app_id \o
                           <<LineSep>>
                      ELSE LineText(fs0[APP_YAML][i]) \o <<LineSep>>
           /\ fs[APP_YAML_BACKUP] = fs0[APP_YAML]
           /\ fs[BACKENDS_YAML] = fs0[BACKENDS_YAML]
           /\ fs[BACKENDS_YAML_BACKUP] = fs0[BACKENDS_YAML_BACKUP]
    /\ Applied(<<"replace_app_yaml", "restore_app_yaml">>) =>
           /\ fs[APP_YAML] = fs0[APP_YAML]
           /\ ~Exists(fs, APP_YAML_BACKUP)
           /\ fs[BACKENDS_YAML] = fs0[BACKENDS_YAML]
           /\ fs[BACKENDS_YAML_BACKUP] = fs0[BACKENDS_YAML_BACKUP]

\* C16 happens: an untouched app.yaml that declares 'original-app-id' in its
\* third line, after an empty line, and whose other lines the patch had to
\* pass through, was patched for 'test-app-id' and restored.
C16_Witness ==
    /\ Applied(<<"replace_app_yaml", "restore_app_yaml">>)
    /\ config.app_id = <<"test-app-id">>
    /\ ~Exists(fs0, APP_YAML_BACKUP)
    /\ Len(fs0[APP_YAML]) = 4
    /\ fs0[APP_YAML][3] = <<"application:", " original-app-id", LineSep>>
    /\ fs[APP_YAML] = fs0[APP_YAML]
    /\ ~Exists(fs, APP_YAML_BACKUP)

-----------------------------------------------------------------------------
(* Claims about the validation of the configuration *)

\* the first of the fields the runner requires that config lacks
RunnerNamed ==
    IF config.app_dir = <<>> THEN "app_dir"
    ELSE IF config.sdk_dir = <<>> THEN "sdk_dir"
    ELSE IF config.username = <<>> THEN "username"
    ELSE "password"

\* the first of the fields update_app, then the runner, require that config
\* lacks
UpdateNamed ==
    IF config.app_dir = <<>> THEN "app_dir"
    ELSE IF config.username = <<>> THEN "username"
    ELSE RunnerNamed

\* the validation error that names attr
ValidationError(attr) ==
    Raised("ValueError", <<"\"config.", attr, "\" has to be set.">>)

-----------------------------------------------------------------------------
(* Claims about the thread of the local server *)

\* the number of colons in the configured application hostname
Colons ==
    Cardinality({i \in 1..Len(config.app_hostname) :
                     config.app_hostname[i] = ":"})

-----------------------------------------------------------------------------
(* Claims about the pure functions *)

\* the argument of the call of is_cluster_appserver
GivenHostname == log[1].args[1]

\* C19: is_cluster_appserver raises TypeError for every argument that is
\* not a string; for a string it returns False (local) if the string starts
\* with 'localhost', whatever follows, and True (remote) for every other
\* string.
C19_Classifier ==
    (op = "is_cluster_appserver" /\ pc = "done") =>
        IF GivenHostname \in {None, <<"<int 8080>">>, <<"<list>">>}
        THEN result.kind = "raise" /\ result.exc = "TypeError"
        ELSE IF Len(GivenHostname) >= 1 /\ GivenHostname[1] = "localhost"
        THEN result = ReturnedValue(<<"False">>)
        ELSE result = ReturnedValue(<<"True">>)

\* C19 happens: 'mylocalhost', which holds 'localhost' and does not start
\* with it, was classified remote.
C19_Witness ==
    /\ op = "is_cluster_appserver" /\ pc = "done"
    /\ GivenHostname = <<"my", "localhost">>
    /\ result = ReturnedValue(<<"True">>)

\* the arguments of the construction of the Config
GivenAppId == log[1].args[1]
GivenCluster == log[1].args[2]

\* the text before the first x in s, or '' when s holds no x
TextBefore(s, x) ==
    IF \E i \in 1..Len(s) : s[i] = x
    THEN SubSeq(s, 1, (CHOOSE i \in 1..Len(s) :
                          s[i] = x /\ \A j \in 1..(i - 1) : s[j] # x) - 1)
    ELSE <<>>

\* the text after the first x in s, or s when s holds no x
TextAfter(s, x) ==
    IF \E i \in 1..Len(s) : s[i] = x
    THEN SubSeq(s, (CHOOSE i \in 1..Len(s) :
                       s[i] = x /\ \A j \in 1..(i - 1) : s[j] # x) + 1,
                Len(s))
    ELSE s

\* C20: for every application identifier that is a string (and a cluster
\* hostname that is one) the construction of a Config succeeds, and yields
\* the partition (the text before '~', else ''), the domain (the text
\* before ':' in the remainder, else '') and the display id (the rest).
C20_DerivationTotal ==
    ( /\ op = "Config" /\ pc = "done"
      /\ GivenAppId \notin {None, <<"<int 8080>">>, <<"<list>">>}
      /\ GivenCluster \notin {None, <<"<int 8080>">>, <<"<list>">>} ) =>
        /\ result.kind = "return"
        /\ config.partition = TextBefore(GivenAppId, "~")
        /\ config.domain = TextBefore(TextAfter(GivenAppId, "~"), ":")
        /\ config.display_app_id =
               TextAfter(TextAfter(GivenAppId, "~"), ":")

\* the backend identifier and the admin console given to the construction
GivenBackend == log[1].args[3]
GivenAdminConsole == log[1].args[4]

-----------------------------------------------------------------------------
(* Claims about the deployment command runner *)

\* the args the caller gave to the runner, [] when omitted
GivenArgs == IF log[1].args = NoneList THEN <<>> ELSE log[1].args

\* the vector ends with tail
EndsWith(vector, tail) ==
    /\ Len(vector) >= Len(tail)
    /\ SubSeq(vector, Len(vector) - Len(tail) + 1, Len(vector)) = tail

\* the elements of list that are not x, in order
Without(list, x) == SelectSeq(list, LAMBDA y : y # x)

\* list with its first x left out
WithoutFirst(list, x) ==
    IF \E i \in 1..Len(list) : list[i] = x
    THEN LET k == CHOOSE i \in 1..Len(list) :
                      list[i] = x /\ \A j \in 1..(i - 1) : list[j] # x
         IN  [i \in 1..(Len(list) - 1) |->
                  IF i < k THEN list[i] ELSE list[i + 1]]
    ELSE list

\* C22: the argument vector of the deployment tool ends with
\* [action, args...] when no backend identifier is configured, and with
\* ['backends', application directory, action, remaining args...] when one
\* is, where the remaining args are the args without the application
\* directory, which so appears only once after 'backends'.
C22_ArgvTail ==
    (op = "run_appcfg_with_auth" /\ pc = "done" /\ Len(log) = 3) =>
        IF config.backend_id = <<>>
        THEN EndsWith(log[2].argv, << <<log[1].action>> >> \o GivenArgs)
        ELSE /\ EndsWith(log[2].argv,
                         << <<"backends">>, config.app_dir,
                            <<log[1].action>> >> \o
                         Without(GivenArgs, config.app_dir))
             /\ \E i \in 1..Len(log[2].argv) :
                    /\ log[2].argv[i] = <<"backends">>
                    /\ Cardinality({j \in (i + 1)..Len(log[2].argv) :
                           log[2].argv[j] = config.app_dir}) = 1

\* C22, with the first occurrence of the application directory removed:
\* the vector ends with [action, args...] when no backend identifier is
\* configured, and with ['backends', application directory, action,
\* remaining args...] when one is, where the remaining args are the args
\* without their first occurrence of the application directory.
C22_ArgvTailFirstRemoved ==
    (op = "run_appcfg_with_auth" /\ pc = "done" /\ Len(log) = 3) =>
        IF config.backend_id = <<>>
        THEN EndsWith(log[2].argv, << <<log[1].action>> >> \o GivenArgs)
        ELSE EndsWith(log[2].argv,
                      << <<"backends">>, config.app_dir,
                         <<log[1].action>> >> \o
                      WithoutFirst(GivenArgs, config.app_dir))

\* C22 happens: with a backend configured the runner was given
\* ['x', app_dir] and ran the tool with [..., 'backends', app_dir,
\* 'rollback', 'x'].
C22_Witness ==
    /\ op = "run_appcfg_with_auth" /\ pc = "done" /\ Len(log) = 3
    /\ config.backend_id = <<"b1">>
    /\ log[1].args = << <<"x">>, <<"/app">> >>
    /\ EndsWith(log[2].argv, << <<"backends">>, <<"/app">>, <<"rollback">>,
                                <<"x">> >>)

\* the runs of the deployment tool of the operation
ToolRuns == {i \in 1..Len(log) : log[i].kind = "appcfg"}

\* C23: in every run of the deployment tool no element of the argument
\* vector holds the password; the vector holds the flag '--passin', which
\* announces a password on standard input, and the password is what is
\* written to the standard input of the child.
C23_PasswordOnlyOnStdin ==
    \A i \in ToolRuns :
        /\ \A j \in 1..Len(log[i].argv) :
               \A k \in 1..Len(log[i].argv[j]) :
                   <<log[i].argv[j][k]>> # config.password
        /\ \E j \in 1..Len(log[i].argv) : log[i].argv[j] = <<"--passin">>
        /\ log[i].stdin = config.password

\* C23 happens: a caller ran the tool with options and args, and the tool
\* got 'secret' on its standard input.
C23_Witness ==
    /\ op = "run_appcfg_with_auth" /\ pc = "done" /\ Len(log) = 3
    /\ config.password = <<"secret">>
    /\ log[1].options # NoneList
    /\ log[1].args # NoneList
    /\ log[2].stdin = <<"secret">>

-----------------------------------------------------------------------------
(* Claims about the local server handle *)

\* the handles whose thread has built its argument vector
Spawned == {h \in 1..Len(handles) : handles[h].run \in {"spawned", "done"}}

\* the colons of the configured application hostname
HostColons ==
    Cardinality({i \in 1..Len(config.app_hostname) :
                     config.app_hostname[i] = ":"})

\* C24: the argument vector of the local server is the executable, the
\* skip-update-check flag, a port option if and only if the configured
\* hostname has a port (exactly one colon), the clear-datastore flag if
\* and only if clearing was not disabled, the options of the caller in
\* order, and the application directory last; without a port in the
\* hostname no element for the port is passed at all.
C24_LocalServerArgv ==
    \A h \in Spawned :
        handles[h].argv =
            << config.sdk_dir \o <<"/", "dev_appserver.py">>,
               <<"--skip_sdk_update_check">> >>
            \o (IF HostColons = 1
                THEN << <<"--port=">> \o
                        SubSeq(config.app_hostname,
                               (CHOOSE i \in 1..Len(config.app_hostname) :
                                    config.app_hostname[i] = ":") + 1,
                               Len(config.app_hostname)) >>
                ELSE <<>>)
            \o (IF handles[h].clear_datastore
                THEN << <<"--clear_datastore">> >> ELSE <<>>)
            \o handles[h].options
            \o <<config.app_dir>>

-----------------------------------------------------------------------------
(* Further claims about update_app *)

\* update_app has ended and the last thing it did was an 'update' whose
\* output holds 'Error' and does not match the conflict signature
UpdateFailed ==
    /\ op = "update_app" /\ pc = "done" /\ Len(log) >= 1
    /\ log[Len(log)].kind = "appcfg" /\ log[Len(log)].action = "update"
    /\ \E i \in 1..Len(log[Len(log)].out) : log[Len(log)].out[i] = "Error"
    /\ ~MatchesSignature(log[Len(log)].out)

\* update_app has ended and the last thing it did was a 'rollback' whose
\* output holds 'Error'
RollbackFailed ==
    /\ op = "update_app" /\ pc = "done" /\ Len(log) >= 1
    /\ log[Len(log)].kind = "appcfg" /\ log[Len(log)].action = "rollback"
    /\ \E i \in 1..Len(log[Len(log)].out) : log[Len(log)].out[i] = "Error"

\* C25: a rollback failure and an update failure reach the caller of
\* update_app as errors of distinct kinds, each carrying the output of the
\* tool: the kind raised for the failure that happened is not the kind
\* the other failure is raised with, so the kind tells the caller which of
\* the two happened.
C25_DistinctKinds ==
    (UpdateFailed \/ RollbackFailed) =>
        /\ result.kind = "raise"
        /\ result.msg = (IF UpdateFailed THEN <<"Could not update : ">>
                         ELSE <<"Could not rollback: ">>) \o
                        log[Len(log)].out
        /\ result.exc # (IF UpdateFailed
                         THEN RollbackFailure(log[Len(log)].out).exc
                         ELSE UpdateFailure(log[Len(log)].out).exc)

\* C25, with the one kind the code has: a rollback failure and an update
\* failure both reach the caller of update_app as an AppcfgError carrying
\* the output of the tool; the message starts with 'Could not rollback: '
\* for the one and with 'Could not update : ' for the other.
C25_SameKindDistinctMessage ==
    /\ UpdateFailed =>
           result = [NoResult EXCEPT
                        !.kind = "raise", !.exc = "AppcfgError",
                        !.msg = <<"Could not update : ">> \o
                                log[Len(log)].out]
    /\ RollbackFailed =>
           result = [NoResult EXCEPT
                        !.kind = "raise", !.exc = "AppcfgError",
                        !.msg = <<"Could not rollback: ">> \o
                                log[Len(log)].out]

\* C25 happens: a rollback failed after a conflict and update_app raised
\* AppcfgError with the output of the rollback.
C25_Witness ==
    /\ RollbackFailed
    /\ Len(log) = 2
    /\ result.exc = "AppcfgError"
    /\ result.msg = <<"Could not rollback: ">> \o log[2].out

\* the retry budget update_app was given, as a number of rounds
Budget == IF n0 > 0 THEN n0 ELSE 0

\* C26: whatever the deployment tool prints and whatever the retry budget
\* n, update_app runs at most n 'update' and at most n 'rollback'
\* invocations (at most 2n runs of the tool), and it ends, returning or
\* raising.
C26_BoundedAndTerminates ==
    /\ [](op = "update_app" =>
             /\ Cardinality(Runs("update")) <= Budget
             /\ Cardinality(Runs("rollback")) <= Budget
             /\ Cardinality(ToolRuns) <= 2 * Budget)
    /\ (op = "update_app") ~>
           (op = "update_app" /\ pc = "done" /\
            result.kind \in {"return", "raise"})

\* C26 happens: update_app used up its whole budget, with as many updates
\* and as many rollbacks as the budget allows, and returned.
C26_Witness ==
    /\ op = "update_app" /\ pc = "done" /\ n0 = MaxRetries
    /\ Cardinality(Runs("update")) = n0
    /\ Cardinality(Runs("rollback")) = n0
    /\ Cardinality(ToolRuns) = 2 * n0
    /\ result.kind = "return"

\* C27: inside update_app every 'rollback' comes right after an 'update'
\* whose output matched the conflict signature, so two rollbacks never
\* follow one another; the argument of the rollback is the backend
\* identifier when a backend is configured and the application directory
\* otherwise, and its options are those of the update.
C27_RollbackAfterConflict ==
    op \in {"update_app", "setup_app"} =>
        \A i \in Runs("rollback") :
            /\ i > 1
            /\ log[i - 1].kind = "appcfg"
            /\ log[i - 1].action = "update"
            /\ MatchesSignature(log[i - 1].out)
            /\ log[i].args = IF config.backend_id # <<>>
                             THEN <<config.backend_id>>
                             ELSE <<config.app_dir>>
            /\ log[i].options = log[i - 1].options

\* C27 happens: with a backend configured and options given, update_app
\* rolled back twice, each time with the backend identifier.
C27_Witness ==
    /\ op = "update_app" /\ pc = "done"
    /\ config.backend_id = <<"b1">>
    /\ Cardinality(Runs("rollback")) = 2
    /\ \A i \in Runs("rollback") :
           log[i].args = << <<"b1">> >> /\ log[i].options = << <<"--quiet">> >>

\* C28: whenever setup_app for a remote cluster has returned normally, one
\* of its 'update' invocations succeeded: its output neither matched the
\* conflict signature nor held 'error'. setup_app never reports success
\* when every update it tried hit the conflict.
C28_SetupImpliesUpdated ==
    ( /\ op = "setup_app" /\ pc = "done" /\ result.kind = "return"
      /\ ~(Len(config.cluster_hostname) >= 1 /\
           config.cluster_hostname[1] = "localhost") ) =>
        \E i \in Runs("update") :
            /\ ~MatchesSignature(log[i].out)
            /\ \A k \in 1..Len(log[i].out) :
                   log[i].out[k] \notin {"error", "Error", "ERROR"}

\* C29: in every interleaving of the caller and the background thread,
\* once start() has returned for a handle and stop() has then returned for
\* it, the local server process of the handle is not running: stop() saw
\* the process id and killed the process, and no child outlives the pair.
C29_NoChildSurvives ==
    ( /\ op = "stop" /\ pc = "done" /\ result.kind = "return"
      /\ handles[token].started ) =>
        handles[token].child # "running"

\* C30: after any sequence of start() and stop() calls on local server
\* handles, stop() without start() and stop() twice included, whenever
\* there is no backup file the application descriptor exists and holds the
\* content it had before the session: stop() never deletes or corrupts it.
C30_DescriptorIntact ==
    fs[APP_YAML_BACKUP] = Absent =>
        /\ fs[APP_YAML] # Absent
        /\ fs[APP_YAML] = fs0[APP_YAML]

-----------------------------------------------------------------------------
(* Claims about whole sessions *)

\* C31: after any sequence of setup and teardown operations on the
\* application directory, two setups without a teardown between them
\* included, a backup file that exists holds the content the descriptor it
\* belongs to had before the session: a backup is never overwritten with
\* content the session generated.
C31_BackupIsOriginal ==
    /\ fs[APP_YAML_BACKUP] # Absent =>
           fs[APP_YAML_BACKUP] = fs0[APP_YAML]
    /\ fs[BACKENDS_YAML_BACKUP] # Absent =>
           fs[BACKENDS_YAML_BACKUP] = fs0[BACKENDS_YAML]

\* C32: on every exit path of teardown_app for a remote cluster with a
\* backend, the paths that end in an assertion failure on the output of
\* 'stop' or of 'delete' included, backends.yaml has been restored and no
\* backup of it remains.
C32_TeardownAlwaysRestores ==
    ( /\ op = "teardown_app" /\ pc = "done"
      /\ ~(Len(config.cluster_hostname) >= 1 /\
           config.cluster_hostname[1] = "localhost")
      /\ config.backend_id # <<>> ) =>
        /\ fs[BACKENDS_YAML_BACKUP] = Absent
        /\ fs[BACKENDS_YAML] = fs0[BACKENDS_YAML]

\* C33: when the setup_app of a session has failed with a validation error
\* for a required field of the configuration that is not set, on the local
\* or the remote path, with or without a backend identifier, no descriptor
\* file has been created, modified or backed up and no process has been
\* spawned: the environment is as the session found it.
C33_FailedSetupChangesNothing ==
    ( /\ op = "setup_app" /\ pc = "done"
      /\ result.kind = "raise" /\ result.exc = "ValueError"
      /\ \E attr \in {"app_id", "app_dir", "sdk_dir", "app_hostname",
                      "username", "password"} :
             result.msg = <<"\"config.", attr, "\" has to be set.">> ) =>
        /\ fs = fs0
        /\ \A i \in 1..Len(log) : log[i].kind # "appcfg"
        /\ \A h \in 1..Len(handles) : handles[h].child = "none"

\* C34: a teardown_app that is given the handle setup_app returned for the
\* same configuration takes the branch the setup took: after a local setup
\* the handle is a thread and the teardown calls stop() on it; after a
\* remote setup the handle is None, and the teardown neither calls stop()
\* nor fails on the None.
C34_TeardownTakesSetupBranch ==
    op = "teardown_app" =>
        IF Len(config.cluster_hostname) >= 1 /\
           config.cluster_hostname[1] = "localhost"
        THEN /\ token \in 1..Len(handles)
             /\ pc = "done"
             /\ Len(log) >= 1
             /\ log[1] = HandleEvent("stop", token)
             /\ \A i \in 1..Len(log) : log[i].kind # "appcfg"
             /\ result.exc # "AttributeError"
        ELSE /\ token = 0
             /\ \A i \in 1..Len(log) :
                    log[i].kind \notin {"stop", "kill", "restore_app_yaml"}
             /\ result.exc # "AttributeError"

\* C34 happens: the teardown of a local session stopped the thread the
\* setup had returned.
C34_Witness ==
    /\ op = "teardown_app" /\ pc = "done"
    /\ config.cluster_hostname = <<"localhost", ":", "8080">>
    /\ token = 1
    /\ log[1] = HandleEvent("stop", 1)
    /\ result.kind = "return"

\* C35: no lifecycle operation changes a field of the configuration, and
\* run_appcfg_with_auth leaves the options list and the args list of its
\* caller as they were given to it.
C35_NoSideEffects ==
    [][ /\ config' = config
        /\ (op' = "run_appcfg_with_auth" /\ pc' = "done") =>
               /\ log'[Len(log')].options = log'[1].options
               /\ log'[Len(log')].args = log'[1].args ]_vars

\* C36: the runner accepts an omitted args parameter for every valid
\* configuration: with a backend identifier configured and args omitted it
\* spawns exactly one process, with a vector that ends in
\* ['backends', application directory, action], as without a backend it
\* spawns one with a vector that ends in [action].
C36_ArgsOmitted ==
    ( /\ op = "run_appcfg_with_auth" /\ pc = "done"
      /\ log[1].args = NoneList
      /\ config.app_dir # <<>> /\ config.sdk_dir # <<>>
      /\ config.username # <<>> /\ config.password # <<>> ) =>
        /\ result.kind = "return"
        /\ Cardinality(ToolRuns) = 1
        /\ EndsWith(log[2].argv,
                    IF config.backend_id # <<>>
                    THEN << <<"backends">>, config.app_dir,
                            <<log[1].action>> >>
                    ELSE << <<log[1].action>> >>)

\* the 'update' runs of update_app whose output both matches the conflict
\* signature and holds 'Error'
ConflictsWithError ==
    {i \in Runs("update") :
        /\ MatchesSignature(log[i].out)
        /\ \E k \in 1..Len(log[i].out) : log[i].out[k] = "Error"}

\* C37: in update_app the conflict signature goes before the check for
\* 'Error': an 'update' whose output matches the signature and holds
\* 'Error' is followed by a rollback and, when the rollback is clean and
\* the budget is not used up, by another update; it never ends update_app
\* with the update failure.
C37_ConflictBeforeError ==
    op = "update_app" =>
        \A i \in ConflictsWithError :
            /\ i = Len(log) => pc = "ua_rollback"
            /\ i < Len(log) =>
                   /\ log[i + 1].kind = "appcfg"
                   /\ log[i + 1].action = "rollback"
            /\ ( /\ i + 1 = Len(log)
                 /\ \A k \in 1..Len(log[i + 1].out) :
                        log[i + 1].out[k] # "Error" ) =>
                   \/ pc = "ua_update" /\ rollback_retries > 0
                   \/ pc = "done" /\ rollback_retries = 0 /\
                      result.kind = "return"
            /\ i + 1 < Len(log) =>
                   /\ log[i + 2].kind = "appcfg"
                   /\ log[i + 2].action = "update"
            /\ ~(result.kind = "raise" /\ Len(result.msg) >= 1 /\
                 result.msg[1] = "Could not update : " /\ i = Len(log))

\* C37 happens: the first update printed 'Error 409: Another transaction
\* by user alice ...', update_app rolled back and updated again.
C37_Witness ==
    /\ op = "update_app" /\ Len(log) >= 3
    /\ 1 \in ConflictsWithError
    /\ log[1].out[1] = "Error"
    /\ log[2].action = "rollback"
    /\ log[3].action = "update"

\* C38: update_app called with a retry budget of zero or less and a
\* configuration that has all it requires runs the deployment tool not
\* once, never pauses, raises nothing and returns the pair (None, None).
C38_ZeroBudget ==
    ( /\ op = "update_app" /\ n0 <= 0
      /\ config.app_dir # <<>> /\ config.sdk_dir # <<>>
      /\ config.username # <<>> /\ config.password # <<>> ) =>
        /\ pc = "done"
        /\ log = <<>>
        /\ result.kind = "return"
        /\ result.stdout = None
        /\ result.stderr = None
        /\ ~success

\* C38 happens: update_app was given the budget -1 and a complete
\* configuration with a backend, and returned (None, None).
C38_Witness ==
    /\ op = "update_app" /\ pc = "done" /\ n0 = -1
    /\ config.backend_id = <<"b1">>
    /\ config.app_dir # <<>> /\ config.sdk_dir # <<>>
    /\ config.username # <<>> /\ config.password # <<>>
    /\ log = <<>>
    /\ result.kind = "return" /\ result.stdout = None

====
